---- MODULE Spec2Model ----
(***************************************************************************)
(* school-backend: the event lifecycle handlers (app/api/events.py), the   *)
(* device registry (app/api/devices.py) and the push delivery engine       *)
(* (app/services/push.py), as one state machine.                           *)
(*                                                                         *)
(* Every action is one HTTP handler, run to completion, as issued by an    *)
(* authenticated admin; the calls a handler makes into PushService are     *)
(* part of its action.  What the environment decides (the outcome of each  *)
(* FCM send, of the registry read and of the prune write) is chosen with   *)
(* \E over small sets.                                                     *)
(***************************************************************************)
EXTENDS Integers, Sequences, FiniteSets, TLC

\* ---------------------------------------------------------------- bounds
MaxEvents == 1
MaxTokens == 2
MaxPublishCalls == 2
MaxFanoutTokens == 6
MaxClasses == 3
MaxTransactions == 3
MaxCatalogEvents == 3
MaxMonthOffset == 3
MaxBlocks == 2
MaxFlows == 2
MaxDrafts == 2
MaxLogins == 4

\* ---------------------------------------------------------------- values
None == "None"

EventIds == 1..MaxEvents

\* request/column values: a str | None column holds None, "" or a text
Titles == {None, "", "science day", "science day v2"}
Locations == {None, "", "assembly hall"}
\* a datetime | None column: None or an ISO-8601 instant
DateTimes == {None, "2026-02-11T13:30:00+00:00", "2026-02-13T09:00:00+00:00"}
BannerUrls == {None, "http://testserver/media/banner.png"}

TokenTable == <<"fcm-tok-1", "fcm-token-0002", "fcm-token-000003">>
Tokens == {TokenTable[i] : i \in 1..MaxTokens}
Platforms == {"android", "ios"}

NotificationType == {"new", "rescheduled", "updated", "canceled"}

\* a reply whose body the model does not look at
NoBody == [body |-> "none"]

\* absent row of the events table
NoEvent == [status |-> "absent"]

Event(title, datetime_start, location, banner_image_url, status) ==
    [title |-> title, datetime_start |-> datetime_start, location |-> location,
     banner_image_url |-> banner_image_url, status |-> status]

Device(fcm_token, platform) == [fcm_token |-> fcm_token, platform |-> platform]

\* Python truthiness of a str | None / datetime | None column value
Truthy(v) == v # None /\ v # ""

VARIABLES
    events,        \* events table: EventIds -> Event row or NoEvent
    devices,       \* devices table: sequence of Device rows in insertion order
    enabled,       \* PushService.enabled
    published_calls, \* per event: the calls publish_event made to send_event_published
    last,          \* the last request handled and what it did
    classes,       \* classes table: ClassIds -> SchoolClass row or NoClass
    point_transactions, \* point_transactions table: rows in insertion order
    calls,         \* per worker thread: how far the call of its request has come
    blocks,        \* event_blocks table: BlockIds -> EventBlock row or NoBlock
    bot            \* the Telegram bot process: wizard states, token cache, tasks

vars == <<events, devices, enabled, published_calls, last, classes, point_transactions, calls, blocks, bot>>

\* the tables of the events and push handlers, and those of the classes handlers
eventVars == <<events, devices, enabled, published_calls>>
pointsVars == <<classes, point_transactions>>
sideVars == <<blocks, bot>>

\* ids of the classes table
ClassIds == 1..MaxClasses

\* absent row of the classes table
NoClass == [name |-> None]

SchoolClass(name, total_points) == [name |-> name, total_points |-> total_points]

PointTransaction(class_id, delta_points, category) ==
    [class_id |-> class_id, delta_points |-> delta_points, category |-> category]

\* the classes handlers are not part of the run: no class, no transaction
NoPoints ==
    /\ classes = [c \in ClassIds |-> NoClass]
    /\ point_transactions = <<>>

\* the two requests that run in worker threads at the same time
CallIds == {1, 2}

\* a worker thread with no request, and no request in any of them
NoCall ==
    [pc |-> "idle", notification_type |-> None, tokens |-> <<>>, attempts |-> <<>>,
     selected |-> <<>>, removed |-> <<>>, topic_attempts |-> 0, topic_delivered |-> FALSE]

NoCalls == calls = [c \in CallIds |-> NoCall]

\* ids of the event_blocks table
BlockIds == 1..MaxBlocks

\* absent row of the event_blocks table, and the empty table
NoBlock == [event_id |-> 0]
EventBlock(event_id, type, sort_order) == [event_id |-> event_id, type |-> type, sort_order |-> sort_order]
NoBlocks == blocks = [b \in BlockIds |-> NoBlock]

\* the chats that write to the bot; ALLOWED_CHAT_IDS is read from the
\* environment when the module is imported and never changes
ALLOWED_CHAT_IDS == {101}
ChatIds == {101, 202}

\* message.chat is None
NoChat == 0

\* updates are handled as tasks of the event loop: the tasks that are at an
\* await on the backend
TaskIds == {1, 2}
NoTask == [handler |-> "none"]

\* create_event_states has no key for the chat
NoWizard == [step |-> "none"]

\* EventCreateWizardState, with the number of the flow that made it
EventCreateWizardState(step, title, event_date, event_time, event_id, flow) ==
    [step |-> step, title |-> title, event_date |-> event_date, event_time |-> event_time,
     event_id |-> event_id, flow |-> flow]

\* no request to the backend is running
NoBotRequest ==
    [pc |-> "idle", path |-> "none", api_calls |-> 0, logins |-> 0, reauth |-> 0, status |-> 0]

\* the last update got no answer
NoAnswer == [chat |-> NoChat, text |-> ""]

\* the bot process before it has handled any update: auth_state, the
\* tokens the backend has issued to it, the request to the backend that is
\* running (with the status of its last answer), create_event_states, the tasks at an await, the flows started,
\* the drafts created, the backend calls made per chat, the last answer
BotAtStart ==
    [token |-> None, issued |-> 0, request |-> NoBotRequest,
     states |-> [chat \in ChatIds |-> NoWizard], tasks |-> [t \in TaskIds |-> NoTask],
     flows |-> 0, drafts |-> <<>>, backend |-> {}, answer |-> NoAnswer]
NoBot == bot = BotAtStart

\* ------------------------------------------------------- text helpers
UpperLetters == "ABCDEFGHIJKLMNOPQRSTUVWXYZ"
LowerLetters == "abcdefghijklmnopqrstuvwxyz"

\* str.lower() of one character
LowerChar(c) ==
    IF \E i \in 1..Len(UpperLetters) : SubSeq(UpperLetters, i, i) = c
    THEN LET i == CHOOSE j \in 1..Len(UpperLetters) : SubSeq(UpperLetters, j, j) = c
         IN  SubSeq(LowerLetters, i, i)
    ELSE c

\* str.lower()
RECURSIVE Lower(_)
Lower(s) ==
    IF Len(s) = 0 THEN ""
    ELSE LowerChar(SubSeq(s, 1, 1)) \o Lower(SubSeq(s, 2, Len(s)))

\* Python's `marker in message` on strings
Contains(message, marker) ==
    \E i \in 1..(Len(message) - Len(marker) + 1) :
        SubSeq(message, i, i + Len(marker) - 1) = marker

\* list(dict.fromkeys(x for x in xs if x)): drop empty values, keep the first
\* occurrence of each value, in order
RECURSIVE DedupKeepFirst(_)
DedupKeepFirst(xs) ==
    IF Len(xs) = 0 THEN <<>>
    ELSE LET init == DedupKeepFirst(SubSeq(xs, 1, Len(xs) - 1))
             x == xs[Len(xs)]
         IN  IF x = "" \/ x = None \/ (\E i \in 1..Len(init) : init[i] = x)
             THEN init
             ELSE Append(init, x)

SeqToSet(xs) == {xs[i] : i \in 1..Len(xs)}

\* ------------------------------------------------------- push service
_INVALID_TOKEN_ERROR_MARKERS ==
    <<"not a valid fcm registration token",
      "invalid registration token",
      "registration-token-not-registered",
      "requested entity was not found",
      "unregistered">>

\* The texts of the service are Russian; the module writes them in Latin
\* transliteration, letter for letter, as a module holds ASCII strings only.
_RU_MONTHS_SHORT ==
    <<"yanv", "fevr", "mar", "apr", "maya", "iyun",
      "iyul", "avg", "sent", "okt", "noyab", "dek">>

\* f"{n:02d}"
TwoDigits(n) == IF n < 10 THEN "0" \o ToString(n) ELSE ToString(n)

\* the number a two-digit field of an ISO-8601 instant stands for
FieldOf(value, first, range) == CHOOSE n \in range : TwoDigits(n) = SubSeq(value, first, first + 1)

\* value.month, value.day, value.hour, value.minute of a datetime held as
\* YYYY-MM-DDTHH:MM:SS+00:00
MonthOf(value) == FieldOf(value, 6, 1..12)
DayOf(value) == FieldOf(value, 9, 1..31)
HourOf(value) == FieldOf(value, 12, 0..23)
MinuteOf(value) == FieldOf(value, 15, 0..59)

Min(a, b) == IF a <= b THEN a ELSE b
Max(a, b) == IF a >= b THEN a ELSE b

\* table[index] of a Python tuple: counted from 0, from the end when
\* negative, IndexError outside -len..len-1
IndexError == "IndexError"
TupleItem(table, index) ==
    IF index >= 0 /\ index < Len(table) THEN table[index + 1]
    ELSE IF index < 0 /\ index >= 0 - Len(table) THEN table[Len(table) + index + 1]
    ELSE IndexError

\* mutation of MonthIndex: the month is not clamped
MonthIndex_unclamped(month) == month - 1

\* max(0, min(11, value.month - 1))
MonthIndex(month) == Max(0, Min(11, month - 1))

\* the formatter on the attributes of value: the text, or the IndexError of
\* the month lookup
FormatFields(month, day, hour, minute) ==
    LET name == TupleItem(_RU_MONTHS_SHORT, MonthIndex(month))
    IN  IF name = IndexError
        THEN [raised |-> TRUE, text |-> ""]
        ELSE [raised |-> FALSE,
              text |-> TwoDigits(day) \o " " \o name \o ", " \o
                       TwoDigits(hour) \o ":" \o TwoDigits(minute)]

_format_ru_short_datetime(value) ==
    IF value = None
    THEN "Data ne ukazana"
    ELSE FormatFields(MonthOf(value), DayOf(value), HourOf(value), MinuteOf(value)).text

\* mutation of _notification_title: an update is titled as a reschedule
_notification_title_updated_as_rescheduled(notification_type) ==
    IF notification_type = "new" THEN "Novoe meropriyatie!"
    ELSE IF notification_type \in {"rescheduled", "updated"} THEN "Meropriyatie pereneseno"
    ELSE "Meropriyatie otmeneno"

_notification_title(notification_type) ==
    IF notification_type = "new" THEN "Novoe meropriyatie!"
    ELSE IF notification_type = "rescheduled" THEN "Meropriyatie pereneseno"
    ELSE IF notification_type = "updated" THEN "Meropriyatie izmeneno"
    ELSE "Meropriyatie otmeneno"

\* "\n".join of a tuple of lines
RECURSIVE JoinLines(_)
JoinLines(lines) ==
    IF Len(lines) = 0 THEN ""
    ELSE IF Len(lines) = 1 THEN lines[1]
    ELSE lines[1] \o "\n" \o JoinLines(Tail(lines))

\* mutation of _notification_body: the placeholders stand in for None only,
\* an empty title or location is kept
_notification_body_none_only(event) ==
    LET title_line == IF event.title # None THEN event.title ELSE "Bez nazvaniya"
        datetime_line == _format_ru_short_datetime(event.datetime_start)
        location_line == IF event.location # None THEN event.location ELSE "Lokatsiya ne ukazana"
    IN  JoinLines(<<title_line, datetime_line, location_line>>)

_notification_body(event) ==
    LET title_line == IF Truthy(event.title) THEN event.title ELSE "Bez nazvaniya"
        datetime_line == _format_ru_short_datetime(event.datetime_start)
        location_line == IF Truthy(event.location) THEN event.location ELSE "Lokatsiya ne ukazana"
    IN  JoinLines(<<title_line, datetime_line, location_line>>)

\* datetime.isoformat() of a timezone-aware value without microseconds:
\* YYYY-MM-DDTHH:MM:SS+HH:MM, written out of its fields
isoformat(value) ==
    SubSeq(value, 1, 4) \o "-" \o TwoDigits(MonthOf(value)) \o "-" \o TwoDigits(DayOf(value)) \o
    "T" \o TwoDigits(HourOf(value)) \o ":" \o TwoDigits(MinuteOf(value)) \o ":" \o
    TwoDigits(FieldOf(value, 18, 0..59)) \o SubSeq(value, 20, 25)

\* f"school-events://event/{event.id}"
DeepLink(event_id) == "school-events://event/" \o ToString(event_id)

\* mutation of _build_message: the columns are passed as they are stored
_build_message_raw_columns(event_id, notification_type) ==
    LET event == events[event_id]
    IN  [event_id |-> event_id,
         deep_link |-> DeepLink(event_id),
         event_title |-> event.title,
         event_datetime_start |-> event.datetime_start,
         event_location |-> event.location,
         notification_type |-> notification_type,
         push_title |-> _notification_title(notification_type),
         push_body |-> _notification_body(event)]

\* the data of the messaging.Message _build_message makes for an event row
_build_message(event_id, notification_type) ==
    LET event == events[event_id]
    IN  [event_id |-> event_id,
         deep_link |-> DeepLink(event_id),
         event_title |-> IF Truthy(event.title) THEN event.title ELSE "",
         event_datetime_start |-> IF Truthy(event.datetime_start)
                                  THEN isoformat(event.datetime_start) ELSE "",
         event_location |-> IF Truthy(event.location) THEN event.location ELSE "",
         notification_type |-> notification_type,
         push_title |-> _notification_title(notification_type),
         push_body |-> _notification_body(event)]

\* what messaging.send does for one message: it returns, or raises an
\* exception carrying one of these texts
SEND_OK == "ok"
ErrorMessages ==
    {"Requested entity was not found.",
     "registration-token-not-registered",
     "Timed out",
     "Internal error encountered."}
SendOutcomes == {SEND_OK} \cup ErrorMessages
\* the topic send returns, or raises a provider error
TopicOutcomes == {SEND_OK, "Internal error encountered."}

\* outcome of a statement on the database session
DB_OK == "ok"
DB_ERROR == "OperationalError"
DbOutcomes == {DB_OK, DB_ERROR}

\* the Session handed to the service: the devices rows it sees, and whether
\* its SELECT on devices and its DELETE/commit go through
Session(rows, read, write) == [rows |-> rows, read |-> read, write |-> write]

\* the tokens of the rows of the devices table
RegisteredRows(rows) == {rows[i].fcm_token : i \in 1..Len(rows)}

\* the provider's answers during one call: per token, and for the topic
Fcm(send, topic) == [send |-> send, topic |-> topic]

\* mutation of _is_invalid_token_error: the markers are matched against the
\* message as raised, without .lower()
_is_invalid_token_error_case_sensitive(exc) ==
    \E k \in 1..Len(_INVALID_TOKEN_ERROR_MARKERS) :
        Contains(exc, _INVALID_TOKEN_ERROR_MARKERS[k])

_is_invalid_token_error(exc) ==
    LET message == Lower(exc)
    IN  \E k \in 1..Len(_INVALID_TOKEN_ERROR_MARKERS) :
            Contains(message, _INVALID_TOKEN_ERROR_MARKERS[k])

\* the classification of every exception text the provider can raise
InvalidTokenError == [exc \in ErrorMessages |-> _is_invalid_token_error(exc)]

\* rows = SELECT fcm_token FROM devices; order-preserving de-duplication
_collect_device_tokens(db) ==
    DedupKeepFirst([i \in 1..Len(db.rows) |-> db.rows[i].fcm_token])

\* the rows _prune_invalid_tokens deletes: those whose token is in the list
PrunedRows(db, tokens) ==
    LET unique_tokens == DedupKeepFirst(tokens)
    IN  SelectSeq(db.rows, LAMBDA row : row.fcm_token \in SeqToSet(unique_tokens))

\* _prune_invalid_tokens: [raised, removed rows, rows left in the table]
_prune_invalid_tokens(db, tokens) ==
    IF Len(tokens) = 0 \/ Len(DedupKeepFirst(tokens)) = 0
    THEN [raised |-> FALSE, removed |-> <<>>, rows |-> db.rows]
    ELSE IF db.write = DB_ERROR
    THEN [raised |-> TRUE, removed |-> <<>>, rows |-> db.rows]
    ELSE [raised |-> FALSE,
          removed |-> PrunedRows(db, tokens),
          rows |-> SelectSeq(db.rows,
                     LAMBDA row : row.fcm_token \notin SeqToSet(DedupKeepFirst(tokens)))]

\* settings.fcm_topic
fcm_topic == "school_all"

\* mutation of SendAttempts: the loop is left at the first send that raises
SendAttempts_until_failure(tokens, fcm) ==
    LET failed == {i \in 1..Len(tokens) : fcm.send[tokens[i]] # SEND_OK}
        stop == IF failed = {} THEN Len(tokens)
                ELSE CHOOSE i \in failed : \A j \in failed : i <= j
    IN  [i \in 1..stop |-> [token |-> tokens[i], outcome |-> fcm.send[tokens[i]]]]

\* the per-token loop: one messaging.send per token, in list order
SendAttempts(tokens, fcm) ==
    [i \in 1..Len(tokens) |-> [token |-> tokens[i], outcome |-> fcm.send[tokens[i]]]]

\* mutation of Delivered: every attempt is counted, whatever its outcome
Delivered_counts_attempts(attempts) == Len(attempts)

\* delivered: the sends of the loop that returned
Delivered(attempts) ==
    Cardinality({i \in 1..Len(attempts) : attempts[i].outcome = SEND_OK})

\* mutation of InvalidTokens: every token whose send raised is listed
InvalidTokens_all_failed(attempts) ==
    LET failed == SelectSeq(attempts, LAMBDA a : a.outcome # SEND_OK)
    IN  [i \in 1..Len(failed) |-> failed[i].token]

\* invalid_tokens: tokens whose send raised an invalid-token error, in order
InvalidTokens(attempts) ==
    LET failed == SelectSeq(attempts,
                    LAMBDA a : a.outcome # SEND_OK /\ InvalidTokenError[a.outcome])
    IN  [i \in 1..Len(failed) |-> failed[i].token]

\* _send_to_tokens: the loop, then the prune of the invalid tokens
_send_to_tokens(event, notification_type, tokens, db, fcm) ==
    LET attempts == SendAttempts(tokens, fcm)
        prune == _prune_invalid_tokens(db, InvalidTokens(attempts))
    IN  [attempts |-> attempts,
         delivered |-> Delivered(attempts),
         raised |-> prune.raised,
         removed |-> prune.removed,
         rows |-> prune.rows]

\* mutation of PushDisabled: the service never takes itself for disabled
PushDisabled_never == FALSE

\* `if not self.enabled` at the head of _send_event and send_test_notification
PushDisabled == ~enabled

\* what one call of _send_event did
PushRun(event, notification_type, skipped, raised, attempts, delivered, removed, topic_attempts, topic_delivered, rows) ==
    [event |-> event, notification_type |-> notification_type, skipped |-> skipped,
     raised |-> raised, attempts |-> attempts, delivered |-> delivered,
     removed |-> removed, topic_attempts |-> topic_attempts,
     topic_delivered |-> topic_delivered, rows |-> rows]

_send_event(event, notification_type, db, fcm) ==
    IF PushDisabled
    THEN PushRun(event, notification_type, TRUE, FALSE, <<>>, 0, <<>>, 0, FALSE, db.rows)
    ELSE IF db.read = DB_ERROR
    THEN PushRun(event, notification_type, FALSE, TRUE, <<>>, 0, <<>>, 0, FALSE, db.rows)
    ELSE LET tokens == _collect_device_tokens(db)
             sent == IF Len(tokens) > 0
                     THEN _send_to_tokens(event, notification_type, tokens, db, fcm)
                     ELSE [attempts |-> <<>>, delivered |-> 0, raised |-> FALSE,
                           removed |-> <<>>, rows |-> db.rows]
         IN  IF sent.raised
             THEN PushRun(event, notification_type, FALSE, TRUE, sent.attempts,
                          sent.delivered, <<>>, 0, FALSE, sent.rows)
             ELSE IF sent.delivered = 0
             THEN PushRun(event, notification_type, FALSE, FALSE, sent.attempts, 0,
                          sent.removed, 1, fcm.topic = SEND_OK, sent.rows)
             ELSE PushRun(event, notification_type, FALSE, FALSE, sent.attempts,
                          sent.delivered, sent.removed, 0, FALSE, sent.rows)

send_event_published(event, db, fcm) == _send_event(event, "new", db, fcm)
send_event_rescheduled(event, db, fcm) == _send_event(event, "rescheduled", db, fcm)
send_event_updated(event, db, fcm) == _send_event(event, "updated", db, fcm)
send_event_canceled(event, db, fcm) == _send_event(event, "canceled", db, fcm)

\* token[:12]
Prefix(s, n) == IF Len(s) <= n THEN s ELSE SubSeq(s, 1, n)

\* the entry send_test_notification appends for a failed token send
TokenError(a) ==
    IF InvalidTokenError[a.outcome]
    THEN "token:" \o Prefix(a.token, 12) \o "... invalid_or_unregistered (removed)"
    ELSE "token:" \o Prefix(a.token, 12) \o "... " \o a.outcome

TokenErrors(attempts) ==
    LET failed == SelectSeq(attempts, LAMBDA a : a.outcome # SEND_OK)
    IN  [i \in 1..Len(failed) |-> TokenError(failed[i])]

TestResult(ok, is_enabled, tokens_total, tokens_delivered, tokens_pruned, topic_sent, errors) ==
    [ok |-> ok, enabled |-> is_enabled, topic |-> fcm_topic, tokens_total |-> tokens_total,
     tokens_delivered |-> tokens_delivered, tokens_pruned |-> tokens_pruned,
     topic_sent |-> topic_sent, errors |-> errors]

\* mutation of CapErrors: the whole list is returned
CapErrors_uncapped(errors) == errors

\* errors[:5]
CapErrors(errors) == Prefix(errors, 5)

\* mutation of TestOk: only a per-token delivery counts
TestOk_delivered_only(delivered, topic_sent) == delivered > 0

\* result["ok"] = delivered > 0 or topic_sent
TestOk(delivered, topic_sent) == delivered > 0 \/ topic_sent

\* send_test_notification: what the call did (as a PushRun of kind "test")
\* and the result dict it returns
send_test_notification(title, body, db, fcm) ==
    IF PushDisabled
    THEN [run |-> PushRun(0, "test", TRUE, FALSE, <<>>, 0, <<>>, 0, FALSE, db.rows),
          result |-> TestResult(FALSE, enabled, 0, 0, 0, FALSE,
                                <<"push_service_disabled_or_missing_credentials">>)]
    ELSE IF db.read = DB_ERROR
    THEN [run |-> PushRun(0, "test", FALSE, TRUE, <<>>, 0, <<>>, 0, FALSE, db.rows),
          result |-> NoBody]
    ELSE LET tokens == _collect_device_tokens(db)
             attempts == SendAttempts(tokens, fcm)
             delivered == Delivered(attempts)
             prune == _prune_invalid_tokens(db, InvalidTokens(attempts))
             topic_sent == delivered = 0 /\ fcm.topic = SEND_OK
             errors == TokenErrors(attempts) \o
                       (IF delivered = 0 /\ fcm.topic # SEND_OK
                        THEN <<"topic:" \o fcm_topic \o " " \o fcm.topic>>
                        ELSE <<>>)
         IN  IF prune.raised
             THEN [run |-> PushRun(0, "test", FALSE, TRUE, attempts, delivered, <<>>, 0,
                                   FALSE, prune.rows),
                   result |-> NoBody]
             ELSE [run |-> PushRun(0, "test", FALSE, FALSE, attempts, delivered,
                                   prune.removed, IF delivered = 0 THEN 1 ELSE 0,
                                   topic_sent, prune.rows),
                   result |-> TestResult(TestOk(delivered, topic_sent), enabled, Len(tokens),
                                         delivered, Len(prune.removed), topic_sent,
                                         CapErrors(errors))]

\* ------------------------------------------------ requests and replies
\* every way the environment can answer during one call into PushService:
\* the session over the current devices rows, and the provider's answers
Sessions(rows) == {Session(rows, r, w) : r \in DbOutcomes, w \in DbOutcomes}

FcmAnswers(rows) ==
    {Fcm(send, topic) :
        send \in [{rows[i].fcm_token : i \in 1..Len(rows)} -> SendOutcomes],
        topic \in TopicOutcomes}

\* a session and a provider with nothing failing
HealthySession(rows) == Session(rows, DB_OK, DB_OK)
HealthyFcm(rows) == Fcm([t \in {rows[i].fcm_token : i \in 1..Len(rows)} |-> SEND_OK], SEND_OK)

\* the editable columns an update changed
EditableFields == {"title", "datetime_start", "location"}
Changed(before, after) == {f \in EditableFields : before[f] # after[f]}

\* the record of the last request: the handler, the event it named, the HTTP
\* request body, the status of the reply, the status of the event row before it
\* ran, the columns it changed, the devices rows before it ran, the fields a
\* publish found missing, the delivery runs it started, and the reply body
Request(op, event, payload, status, pre_status, changed, devices_before, missing, pushes, result) ==
    [op |-> op, event |-> event, payload |-> payload, status |-> status,
     pre_status |-> pre_status, changed |-> changed, devices_before |-> devices_before,
     missing |-> missing, pushes |-> pushes, result |-> result]

\* ------------------------------------------------------ events handlers
\* db.get(Event, event_id) finds a row
Exists(event_id) == events[event_id].status \in {"draft", "published"}

\* the devices rows once the handler's push calls are over
RowsAfter(pushes) == IF Len(pushes) > 0 THEN pushes[Len(pushes)].rows ELSE devices

\* the reply status of a handler that made these push calls and then returned
StatusOf(pushes) == IF \E i \in 1..Len(pushes) : pushes[i].raised THEN 500 ELSE 200

\* a handler that found no row: 404, nothing changes
NotFound(op, event_id) ==
    /\ last' = Request(op, event_id, NoBody, 404, events[event_id].status, {}, devices, <<>>, <<>>, NoBody)
    /\ UNCHANGED <<events, devices, enabled, published_calls>>

\* uuid4: an id no row has used yet
FreshEventId == CHOOSE e \in EventIds : events[e] = NoEvent /\ \A f \in 1..(e - 1) : events[f] # NoEvent

create_event(title, datetime_start, location) ==
    /\ \E e \in EventIds : events[e] = NoEvent
    /\ events' = [events EXCEPT ![FreshEventId] = Event(title, datetime_start, location, None, "draft")]
    /\ last' = Request("create_event", FreshEventId, NoBody, 200, "absent", {}, devices, <<>>, <<>>, NoBody)
    /\ UNCHANGED <<devices, enabled, published_calls>>

\* mutation of Updated: the edited row is stored as a draft again
Updated_as_draft(event, title, datetime_start, location) ==
    [event EXCEPT !.title = IF title # None THEN title ELSE @,
                  !.datetime_start = IF datetime_start # None THEN datetime_start ELSE @,
                  !.location = IF location # None THEN location ELSE @,
                  !.status = "draft"]

\* the row update_event commits: a field of the payload that is not None
\* replaces the column
Updated(event, title, datetime_start, location) ==
    [event EXCEPT !.title = IF title # None THEN title ELSE @,
                  !.datetime_start = IF datetime_start # None THEN datetime_start ELSE @,
                  !.location = IF location # None THEN location ELSE @]

\* mutation of UpdatePushes: an update that changed a column announces it,
\* whatever the status of the row
UpdatePushes_on_any_change(event_id, before, after) ==
    IF Changed(before, after) # {}
    THEN <<send_event_updated(event_id, HealthySession(devices), HealthyFcm(devices))>>
    ELSE <<>>

\* the calls update_event makes into the push service: none
UpdatePushes(event_id, before, after) == <<>>

update_event(event_id, title, datetime_start, location) ==
    IF ~Exists(event_id)
    THEN NotFound("update_event", event_id)
    ELSE LET before == events[event_id]
             after == Updated(before, title, datetime_start, location)
             pushes == UpdatePushes(event_id, before, after)
         IN  /\ events' = [events EXCEPT ![event_id] = after]
             /\ devices' = RowsAfter(pushes)
             /\ last' = Request("update_event", event_id, NoBody, StatusOf(pushes), before.status,
                                Changed(before, after), devices, <<>>, pushes, NoBody)
             /\ UNCHANGED <<enabled, published_calls>>

upload_banner(event_id, banner_url) ==
    IF ~Exists(event_id)
    THEN NotFound("upload_banner", event_id)
    ELSE /\ events' = [events EXCEPT ![event_id].banner_image_url = banner_url]
         /\ last' = Request("upload_banner", event_id, NoBody, 200, events[event_id].status, {},
                            devices, <<>>, <<>>, NoBody)
         /\ UNCHANGED <<devices, enabled, published_calls>>

\* mutation of missing_fields: a field is missing only if it is None
missing_fields_none_only(event) ==
    (IF event.title = None THEN <<"title">> ELSE <<>>) \o
    (IF event.datetime_start = None THEN <<"datetime_start">> ELSE <<>>) \o
    (IF event.location = None THEN <<"location">> ELSE <<>>) \o
    (IF event.banner_image_url = None THEN <<"banner_image_url">> ELSE <<>>)

\* missing_fields of publish_event, in the order the handler appends them
missing_fields(event) ==
    (IF ~Truthy(event.title) THEN <<"title">> ELSE <<>>) \o
    (IF ~Truthy(event.datetime_start) THEN <<"datetime_start">> ELSE <<>>) \o
    (IF ~Truthy(event.location) THEN <<"location">> ELSE <<>>) \o
    (IF ~Truthy(event.banner_image_url) THEN <<"banner_image_url">> ELSE <<>>)

\* the calls publish_event makes into the push service once the row is
\* committed as published
PublishPushes(event_id, before, db, fcm) == <<send_event_published(event_id, db, fcm)>>

publish_event(event_id, db, fcm) ==
    IF ~Exists(event_id)
    THEN NotFound("publish_event", event_id)
    ELSE IF Len(missing_fields(events[event_id])) > 0
    THEN /\ last' = Request("publish_event", event_id, NoBody, 400, events[event_id].status, {},
                            devices, missing_fields(events[event_id]), <<>>, NoBody)
         /\ UNCHANGED <<events, devices, enabled, published_calls>>
    ELSE LET pushes == PublishPushes(event_id, events[event_id], db, fcm)
         IN  /\ published_calls[event_id] + Len(pushes) <= MaxPublishCalls
             /\ events' = [events EXCEPT ![event_id].status = "published"]
             /\ devices' = RowsAfter(pushes)
             /\ published_calls' = [published_calls EXCEPT ![event_id] = @ + Len(pushes)]
             /\ last' = Request("publish_event", event_id, NoBody, StatusOf(pushes),
                                events[event_id].status, {}, devices, <<>>, pushes, NoBody)
             /\ UNCHANGED enabled

\* DELETE /events/{event_id}: the router registers PATCH and GET on this
\* path and no DELETE, so the request is answered 405 before any handler,
\* dependency or session runs; no row and no device changes, no push call
delete_event(event_id) ==
    /\ last' = Request("delete_event", event_id, NoBody, 405, events[event_id].status,
                       {}, devices, <<>>, <<>>, NoBody)
    /\ UNCHANGED <<events, devices, enabled, published_calls>>

\* the instants the model knows, in ascending order
Instants ==
    <<"2026-02-11T13:30:00+00:00", "2026-02-13T09:00:00+00:00", "2026-11-05T09:07:00+00:00">>

\* the place of a datetime_start in ORDER BY datetime_start ASC NULLS LAST
TimeRank(datetime_start) ==
    IF \E i \in 1..Len(Instants) : Instants[i] = datetime_start
    THEN CHOOSE i \in 1..Len(Instants) : Instants[i] = datetime_start
    ELSE Len(Instants) + 1

\* row a comes before row b in ORDER BY datetime_start ASC NULLS LAST,
\* created_at ASC; ids are given out in the order rows are created
ListedBefore(a, b) ==
    \/ TimeRank(events[a].datetime_start) < TimeRank(events[b].datetime_start)
    \/ /\ TimeRank(events[a].datetime_start) = TimeRank(events[b].datetime_start)
       /\ a < b

\* mutation of OrderedRows: the rows come in the order they were created
RECURSIVE OrderedRows_by_creation(_)
OrderedRows_by_creation(ids) ==
    IF ids = {} THEN <<>>
    ELSE LET first == CHOOSE a \in ids : \A b \in ids : a <= b
         IN  <<first>> \o OrderedRows_by_creation(ids \ {first})

\* the ids of a set of rows in the order of the ORDER BY clause
RECURSIVE OrderedRows(_)
OrderedRows(ids) ==
    IF ids = {} THEN <<>>
    ELSE LET first == CHOOSE a \in ids : \A b \in ids \ {a} : ListedBefore(a, b)
         IN  <<first>> \o OrderedRows(ids \ {first})

\* the query string of GET /events
ListRequest(from_value, limit) == [from |-> from_value, limit |-> limit]

\* datetime.fromisoformat(from_value) raises ValueError
InvalidFrom(from_value) ==
    from_value \notin {None, "", "now"} /\ \A i \in 1..Len(Instants) : Instants[i] # from_value

\* mutation of ListedRows: the status of a row is not looked at
ListedRows_any_status(from_value, now) ==
    {e \in DOMAIN events :
        /\ events[e] # NoEvent
        /\ Truthy(from_value) =>
              /\ events[e].datetime_start # None
              /\ TimeRank(events[e].datetime_start)
                    >= TimeRank(IF from_value = "now" THEN now ELSE from_value)}

\* WHERE status = 'published' [AND datetime_start >= dt]
ListedRows(from_value, now) ==
    {e \in DOMAIN events :
        /\ events[e].status = "published"
        /\ Truthy(from_value) =>
              /\ events[e].datetime_start # None
              /\ TimeRank(events[e].datetime_start)
                    >= TimeRank(IF from_value = "now" THEN now ELSE from_value)}

\* GET /events: the published rows, from a start time on if asked, by start
\* time and then creation, the first `limit` of them
list_events(from_value, limit, now) ==
    /\ last' = IF InvalidFrom(from_value)
               THEN Request("list_events", 0, ListRequest(from_value, limit), 400, "absent", {},
                            devices, <<>>, <<>>, NoBody)
               ELSE Request("list_events", 0, ListRequest(from_value, limit), 200, "absent", {},
                            devices, <<>>, <<>>,
                            [items |-> Prefix(OrderedRows(ListedRows(from_value, now)), limit)])
    /\ UNCHANGED <<events, devices, enabled, published_calls>>

\* GET /events/{event_id}: the row, whatever its status, or 404
event_details(event_id) ==
    /\ last' = IF events[event_id] = NoEvent
               THEN Request("event_details", event_id, NoBody, 404, events[event_id].status, {},
                            devices, <<>>, <<>>, NoBody)
               ELSE Request("event_details", event_id, NoBody, 200, events[event_id].status, {},
                            devices, <<>>, <<>>, events[event_id])
    /\ UNCHANGED <<events, devices, enabled, published_calls>>

\* ------------------------------------------------------ blocks handlers
\* a handler of the blocks routes that found no row: 404, nothing changes
BlockNotFound(op, event_id) ==
    /\ NotFound(op, event_id)
    /\ UNCHANGED blocks

\* uuid4: an id no block has used yet
FreshBlockId == CHOOSE b \in BlockIds : blocks[b] = NoBlock /\ \A c \in 1..(b - 1) : blocks[c] # NoBlock

\* POST /events/{event_id}/blocks and POST /events/{event_id}/blocks/image:
\* a new row of the given type for the event
add_block(event_id, type, sort_order) ==
    IF ~Exists(event_id)
    THEN BlockNotFound("add_block", event_id)
    ELSE /\ \E b \in BlockIds : blocks[b] = NoBlock
         /\ blocks' = [blocks EXCEPT ![FreshBlockId] = EventBlock(event_id, type, sort_order)]
         /\ last' = Request("add_block", event_id, EventBlock(event_id, type, sort_order), 200,
                            events[event_id].status, {}, devices, <<>>, <<>>, [id |-> FreshBlockId])
         /\ UNCHANGED <<events, devices, enabled, published_calls>>

\* DELETE /events/{event_id}/blocks/{block_id}
delete_block(event_id, block_id) ==
    IF blocks[block_id] = NoBlock \/ blocks[block_id].event_id # event_id
    THEN BlockNotFound("delete_block", event_id)
    ELSE /\ blocks' = [blocks EXCEPT ![block_id] = NoBlock]
         /\ last' = Request("delete_block", event_id, [block_id |-> block_id], 200,
                            events[event_id].status, {}, devices, <<>>, <<>>, [ok |-> TRUE])
         /\ UNCHANGED <<events, devices, enabled, published_calls>>

EventBlockReorderItem(block_id, sort_order) == [block_id |-> block_id, sort_order |-> sort_order]

\* block_map: the blocks of the event
InBlockMap(rows, event_id, block_id) ==
    rows[block_id] # NoBlock /\ rows[block_id].event_id = event_id

\* the loop of reorder_blocks over the rows loaded in the session: the rows
\* as the items before the first foreign one have set them, and that item's
\* block (0 if every item names a block of the event)
RECURSIVE ReorderLoop(_, _, _)
ReorderLoop(rows, event_id, payload) ==
    IF Len(payload) = 0 THEN [rows |-> rows, foreign |-> 0]
    ELSE IF ~InBlockMap(rows, event_id, Head(payload).block_id)
    THEN [rows |-> rows, foreign |-> Head(payload).block_id]
    ELSE ReorderLoop([rows EXCEPT ![Head(payload).block_id].sort_order = Head(payload).sort_order],
                     event_id, Tail(payload))

\* mutation of RolledBack: the changes of the session reach the table
RolledBack_flushed(stored, pending) == pending

\* the table after a request that raised before db.commit(): get_db closes
\* the session (autoflush off), and what the session had changed is dropped
RolledBack(stored, pending) == stored

\* PUT /events/{event_id}/blocks/reorder
reorder_blocks(event_id, payload) ==
    IF ~Exists(event_id)
    THEN BlockNotFound("reorder_blocks", event_id)
    ELSE LET loop == ReorderLoop(blocks, event_id, payload)
         IN  /\ blocks' = IF loop.foreign # 0 THEN RolledBack(blocks, loop.rows) ELSE loop.rows
             /\ last' = Request("reorder_blocks", event_id, payload,
                                IF loop.foreign # 0 THEN 400 ELSE 200,
                                events[event_id].status, {}, devices, <<>>, <<>>,
                                IF loop.foreign # 0 THEN [detail |-> loop.foreign] ELSE [ok |-> TRUE])
             /\ UNCHANGED <<events, devices, enabled, published_calls>>

\* ------------------------------------------------------ devices handler
\* mutation of UpsertDevice: a row is added without looking for the token
UpsertDevice_always_insert(rows, fcm_token, platform) ==
    Append(rows, Device(fcm_token, platform))

\* the devices rows register_device commits: the row with this token gets
\* the platform, or a new row is added at the end
UpsertDevice(rows, fcm_token, platform) ==
    IF \E i \in 1..Len(rows) : rows[i].fcm_token = fcm_token
    THEN LET existing == CHOOSE i \in 1..Len(rows) :
                             /\ rows[i].fcm_token = fcm_token
                             /\ \A j \in 1..(i - 1) : rows[j].fcm_token # fcm_token
         IN  [rows EXCEPT ![existing].platform = platform]
    ELSE Append(rows, Device(fcm_token, platform))

register_device(fcm_token, platform) ==
    /\ devices' = UpsertDevice(devices, fcm_token, platform)
    /\ last' = Request("register_device", 0, Device(fcm_token, platform), 200, "absent", {},
                       devices, <<>>, <<>>, [ok |-> TRUE])
    /\ UNCHANGED <<events, enabled, published_calls>>

\* ------------------------------------------------------- system handlers
push_test(title, body, db, fcm) ==
    LET sent == send_test_notification(title, body, db, fcm)
    IN  /\ devices' = sent.run.rows
        /\ last' = Request("push_test", 0, NoBody, StatusOf(<<sent.run>>), "absent", {}, devices, <<>>,
                           <<sent.run>>, sent.result)
        /\ UNCHANGED <<events, enabled, published_calls>>

\* the rows of the admins table
Admins == {"admin-1"}

\* what HTTPBearer(auto_error=False) hands over: nothing, or a bearer token,
\* seen here as what jwt.decode makes of it
NoCredentials == [credentials |-> None]
Credentials(signature_ok, expired, sub) ==
    [signature_ok |-> signature_ok, expired |-> expired, sub |-> sub]

\* the reply of the dependency: the admin, or the 401 it raises
Authorized(admin_id) == [status |-> 200, admin |-> admin_id]
Unauthorized(detail) == [status |-> 401, detail |-> detail]

\* mutation of get_current_admin: any bearer token is taken for an admin's
get_current_admin_any_bearer(credentials) ==
    IF credentials = NoCredentials THEN Unauthorized("Missing authorization token")
    ELSE Authorized(credentials.sub)

get_current_admin(credentials) ==
    IF credentials = NoCredentials THEN Unauthorized("Missing authorization token")
    ELSE IF ~credentials.signature_ok \/ credentials.expired THEN Unauthorized("Invalid token")
    ELSE IF ~Truthy(credentials.sub) THEN Unauthorized("Invalid token payload")
    ELSE IF credentials.sub \notin Admins THEN Unauthorized("Admin not found")
    ELSE Authorized(credentials.sub)

\* the body and the environment of a POST /push/test request
PushTestRequest(credentials, title, body, db, fcm) ==
    [credentials |-> credentials, title |-> title, body |-> body, db |-> db, fcm |-> fcm]

\* POST /push/test with its dependencies: the 401 of get_current_admin, or
\* the dict of send_test_notification
post_push_test(credentials, title, body, db, fcm) ==
    LET admin == get_current_admin(credentials)
        payload == PushTestRequest(credentials, title, body, db, fcm)
    IN  IF admin.status = 401
        THEN /\ last' = Request("post_push_test", 0, payload, 401, "absent", {}, devices, <<>>, <<>>,
                                [detail |-> admin.detail])
             /\ UNCHANGED <<events, devices, enabled, published_calls>>
        ELSE LET sent == send_test_notification(title, body, db, fcm)
             IN  /\ devices' = sent.run.rows
                 /\ last' = Request("post_push_test", 0, payload, StatusOf(<<sent.run>>), "absent", {},
                                    devices, <<>>, <<sent.run>>, sent.result)
                 /\ UNCHANGED <<events, enabled, published_calls>>

\* mutation of ReconPushes: the type of the request is ignored
ReconPushes_always_new(event_id, notification_type, db, fcm) ==
    <<send_event_published(event_id, db, fcm)>>

\* the send_event_* entry point push_recon_event picks for a notification type
ReconPushes(event_id, notification_type, db, fcm) ==
    IF notification_type = "new" THEN <<send_event_published(event_id, db, fcm)>>
    ELSE IF notification_type = "rescheduled" THEN <<send_event_rescheduled(event_id, db, fcm)>>
    ELSE IF notification_type = "updated" THEN <<send_event_updated(event_id, db, fcm)>>
    ELSE <<send_event_canceled(event_id, db, fcm)>>

\* the body of the request: {"notification_type": ...}
PushReconRequest(notification_type) == [notification_type |-> notification_type]

push_recon_event(event_id, notification_type, db, fcm) ==
    IF ~Exists(event_id)
    THEN NotFound("push_recon_event", event_id)
    ELSE IF ~enabled
    THEN /\ last' = Request("push_recon_event", event_id, PushReconRequest(notification_type), 400,
                            events[event_id].status, {}, devices, <<>>, <<>>, NoBody)
         /\ UNCHANGED <<events, devices, enabled, published_calls>>
    ELSE LET pushes == ReconPushes(event_id, notification_type, db, fcm)
         IN  /\ devices' = RowsAfter(pushes)
             /\ last' = Request("push_recon_event", event_id, PushReconRequest(notification_type), StatusOf(pushes),
                                events[event_id].status, {}, devices, <<>>, pushes,
                                IF StatusOf(pushes) = 200 THEN [ok |-> TRUE] ELSE NoBody)
             /\ UNCHANGED <<events, enabled, published_calls>>

\* ------------------------------------------------------ classes handlers
\* db.get(SchoolClass, class_id) finds a row
ClassExists(class_id) == classes[class_id] # NoClass

\* the body of POST /classes/{class_id}/points
PointOperationRequest(delta_points, category) ==
    [delta_points |-> delta_points, category |-> category]

\* mutation of NewTotal: the delta replaces the total
NewTotal_overwrite(total_points, delta_points) == delta_points

\* school_class.total_points += payload.delta_points
NewTotal(total_points, delta_points) == total_points + delta_points

add_points(class_id, delta_points, category) ==
    IF ~ClassExists(class_id)
    THEN /\ last' = Request("add_points", class_id, PointOperationRequest(delta_points, category),
                            404, "absent", {}, devices, <<>>, <<>>, NoBody)
         /\ UNCHANGED <<classes, point_transactions>>
    ELSE LET total_points == NewTotal(classes[class_id].total_points, delta_points)
         IN  /\ Len(point_transactions) < MaxTransactions
             /\ classes' = [classes EXCEPT ![class_id].total_points = total_points]
             /\ point_transactions' =
                  Append(point_transactions, PointTransaction(class_id, delta_points, category))
             /\ last' = Request("add_points", class_id,
                                PointOperationRequest(delta_points, category), 200, "absent",
                                {}, devices, <<>>, <<>>,
                                [ok |-> TRUE, total_points |-> total_points])

\* rows in reverse order
RECURSIVE Reversed(_)
Reversed(rows) ==
    IF Len(rows) = 0 THEN <<>> ELSE Append(Reversed(Tail(rows)), Head(rows))

\* GET /classes/{class_id}/points/history: the transactions of the class,
\* latest first
points_history(class_id) ==
    /\ last' = IF ~ClassExists(class_id)
               THEN Request("points_history", class_id, NoBody, 404, "absent", {}, devices,
                            <<>>, <<>>, NoBody)
               ELSE Request("points_history", class_id, NoBody, 200, "absent", {}, devices,
                            <<>>, <<>>,
                            [items |-> Reversed(SelectSeq(point_transactions,
                                                  LAMBDA row : row.class_id = class_id))])
    /\ UNCHANGED <<classes, point_transactions>>

\* ------------------------------------------------- bot: backend requests
\* the answer of POST /auth/login: the status, and the access_token of a 200
LoginAnswers == {200, 401}

\* the statuses the backend gives an authorized request
ApiStatuses == {200, 401, 500}

\* the requests the bot makes with its token
BotPaths == {"GET /system/info", "POST /push/test", "POST /events", "POST /events/{id}/banner"}

BotRequest(pc, path, api_calls, logins, reauth, status) ==
    [pc |-> pc, path |-> path, api_calls |-> api_calls, logins |-> logins, reauth |-> reauth,
     status |-> status]

\* the token of the n-th login
IssuedToken(n) == "jwt-" \o ToString(n)

\* _api_login called from the request r: the bot after it, at pc next if
\* the login returned a token, raised otherwise
_api_login(b, status, next, reauth) ==
    LET r == b.request
    IN  IF status # 200
        THEN [b EXCEPT !.request = BotRequest("raised", r.path, r.api_calls, r.logins + 1,
                                              r.reauth + reauth, status)]
        ELSE [b EXCEPT !.token = IssuedToken(b.issued + 1),
                       !.issued = b.issued + 1,
                       !.request = BotRequest(next, r.path, r.api_calls, r.logins + 1,
                                              r.reauth + reauth, status)]

\* _ensure_token: the cached token, or a login that fills the cache
_ensure_token(b, status) ==
    IF b.token # None
    THEN [b EXCEPT !.request.pc = "send"]
    ELSE _api_login(b, status, "send", 0)

\* the first request: a 401 leads to a new login, another status of 400 or
\* more is raised, anything else is returned
AfterFirst(status) ==
    IF status = 401 THEN "relogin" ELSE IF status >= 400 THEN "raised" ELSE "returned"

\* mutation of AfterRetry: the answer of the repeated request is returned
\* whatever its status
AfterRetry_returned(status) == "returned"

\* the repeated request: a status of 400 or more is raised
AfterRetry(status) == IF status >= 400 THEN "raised" ELSE "returned"

\* ------------------------------------------------------ bot: text input
\* str.strip() of spaces
RECURSIVE Strip(_)
Strip(s) ==
    IF Len(s) > 0 /\ SubSeq(s, 1, 1) = " " THEN Strip(SubSeq(s, 2, Len(s)))
    ELSE IF Len(s) > 0 /\ SubSeq(s, Len(s), Len(s)) = " " THEN Strip(SubSeq(s, 1, Len(s) - 1))
    ELSE s

\* str.startswith
StartsWith(s, prefix) == Len(s) >= Len(prefix) /\ SubSeq(s, 1, Len(prefix)) = prefix

\* str.split(sep) for a separator of one character
RECURSIVE Split(_, _)
Split(s, sep) ==
    IF \E i \in 1..Len(s) : SubSeq(s, i, i) = sep
    THEN LET i == CHOOSE k \in 1..Len(s) :
                      SubSeq(s, k, k) = sep /\ \A j \in 1..(k - 1) : SubSeq(s, j, j) # sep
         IN  <<SubSeq(s, 1, i - 1)>> \o Split(SubSeq(s, i + 1, Len(s)), sep)
    ELSE <<s>>

\* the numbers of a range that strptime reads a one- or two-digit field as
\* (%d, %m, %H, %M, %S take "7" and "07")
FieldValues(text, range) == {n \in range : text = ToString(n) \/ text = TwoDigits(n)}

\* the years %Y reads: four digits; the model knows these
Years == {2026}
YearValues(text) == {y \in Years : text = ToString(y)}

\* calendar.monthrange
DaysIn(year, month) ==
    IF month = 2 THEN (IF year % 4 = 0 /\ (year % 100 # 0 \/ year % 400 = 0) THEN 29 ELSE 28)
    ELSE IF month \in {4, 6, 9, 11} THEN 30 ELSE 31

\* the dates strptime reads from the three fields
DatesOf(year_text, month_text, day_text) ==
    {x \in [year : YearValues(year_text), month : FieldValues(month_text, 1..12),
            day : FieldValues(day_text, 1..31)] : x.day <= DaysIn(x.year, x.month)}

\* _parse_user_date: "%d.%m.%Y", then "%Y-%m-%d"; date.isoformat() of the
\* date read, or None
_parse_user_date(raw) ==
    LET value == Strip(raw)
        dotted == Split(value, ".")
        dashed == Split(value, "-")
        read == IF Len(dotted) = 3 /\ DatesOf(dotted[3], dotted[2], dotted[1]) # {}
                THEN DatesOf(dotted[3], dotted[2], dotted[1])
                ELSE IF Len(dashed) = 3 THEN DatesOf(dashed[1], dashed[2], dashed[3])
                ELSE {}
    IN  IF read = {} THEN None
        ELSE LET r == CHOOSE x \in read : TRUE
             IN  ToString(r.year) \o "-" \o TwoDigits(r.month) \o "-" \o TwoDigits(r.day)

\* _parse_user_time: "%H:%M", then "%H:%M:%S"; time.isoformat() of the time
\* read, or None
_parse_user_time(raw) ==
    LET value == Strip(raw)
        parts == Split(value, ":")
        read == IF Len(parts) \notin {2, 3} THEN {}
                ELSE [hour : FieldValues(parts[1], 0..23), minute : FieldValues(parts[2], 0..59),
                      second : IF Len(parts) = 2 THEN {0} ELSE FieldValues(parts[3], 0..59)]
    IN  IF read = {} THEN None
        ELSE LET r == CHOOSE x \in read : TRUE
             IN  TwoDigits(r.hour) \o ":" \o TwoDigits(r.minute) \o ":" \o TwoDigits(r.second)

\* --------------------------------------------------- bot: update handlers
\* mutation of _is_chat_allowed_chat_id: every chat is allowed
_is_chat_allowed_chat_id_open(chat_id) == TRUE

_is_chat_allowed_chat_id(chat_id) ==
    IF ALLOWED_CHAT_IDS = {} \/ chat_id = NoChat THEN FALSE ELSE chat_id \in ALLOWED_CHAT_IDS

\* await message.answer(text)
Answer(chat, text) == [chat |-> chat, text |-> text]

AccessDenied(b, chat) == [b EXCEPT !.answer = Answer(chat, "Access denied.")]

\* _set_create_event_state and _clear_create_event_state
_set_create_event_state(b, chat, state) == [b EXCEPT !.states[chat] = state]
_clear_create_event_state(b, chat) == [b EXCEPT !.states[chat] = NoWizard]

\* a task slot of the event loop that is free
FreeTask(b) == CHOOSE t \in TaskIds : b.tasks[t] = NoTask

\* the handler reaches an await on the backend and the event loop goes on
\* with other updates
Await(b, handler, chat, state, value) ==
    [b EXCEPT !.tasks[FreeTask(b)] = [handler |-> handler, chat |-> chat, state |-> state,
                                      value |-> value],
              !.answer = NoAnswer]

cmd_create_event(b, chat) ==
    IF ~_is_chat_allowed_chat_id(chat) THEN AccessDenied(b, chat)
    ELSE [_set_create_event_state(b, chat,
              EventCreateWizardState("title", None, None, None, None, b.flows + 1))
          EXCEPT !.flows = b.flows + 1,
                 !.answer = Answer(chat, "Create event flow started.")]

cmd_cancel(b, chat) ==
    IF ~_is_chat_allowed_chat_id(chat) THEN AccessDenied(b, chat)
    ELSE IF b.states[chat] = NoWizard
    THEN [b EXCEPT !.answer = Answer(chat, "No active event creation flow.")]
    ELSE [_clear_create_event_state(b, chat)
          EXCEPT !.answer = Answer(chat, "Event creation flow canceled.")]

\* _handle_create_event_text_step up to its return or to the await of
\* _create_event_draft
_handle_create_event_text_step(b, chat, text, state) ==
    IF state.step = "title"
    THEN IF text = "" THEN [b EXCEPT !.answer = Answer(chat, "Title is empty. Send a non-empty title.")]
         ELSE IF Len(text) > 255
         THEN [b EXCEPT !.answer = Answer(chat, "Title is too long (max 255 chars). Send a shorter title.")]
         ELSE [_set_create_event_state(b, chat, [state EXCEPT !.title = text, !.step = "date"])
               EXCEPT !.answer = Answer(chat, "Step 2/4: send date in format DD.MM.YYYY.")]
    ELSE IF state.step = "date"
    THEN IF _parse_user_date(text) = None
         THEN [b EXCEPT !.answer = Answer(chat, "Invalid date format. Use DD.MM.YYYY.")]
         ELSE [_set_create_event_state(b, chat, [state EXCEPT !.event_date = _parse_user_date(text),
                                                              !.step = "time"])
               EXCEPT !.answer = Answer(chat, "Step 3/4: send time in format HH:MM.")]
    ELSE IF state.step = "time"
    THEN IF _parse_user_time(text) = None
         THEN [b EXCEPT !.answer = Answer(chat, "Invalid time format. Use HH:MM.")]
         ELSE IF ~Truthy(state.title) \/ ~Truthy(state.event_date)
         THEN [_clear_create_event_state(b, chat)
               EXCEPT !.answer = Answer(chat, "Flow state is invalid. Start again with /create_event.")]
         ELSE Await(b, "_create_event_draft", chat, state, _parse_user_time(text))
    ELSE IF state.step = "banner"
    THEN [b EXCEPT !.answer = Answer(chat, "Please send a banner image (photo or image document).")]
    ELSE [_clear_create_event_state(b, chat)
          EXCEPT !.answer = Answer(chat, "Unknown flow state. Start again with /create_event.")]

\* the time step after the await: the draft the backend created, or the
\* exception of the request
CreateDraftReturned(b, t, created) ==
    LET task == b.tasks[t]
        event_id == "evt-" \o ToString(Len(b.drafts) + 1)
    IN  IF ~created
        THEN [b EXCEPT !.tasks[t] = NoTask,
                       !.answer = Answer(task.chat, "Failed to create event draft")]
        ELSE [_set_create_event_state(b, task.chat,
                  [task.state EXCEPT !.event_time = task.value, !.event_id = event_id,
                                     !.step = "banner"])
              EXCEPT !.tasks[t] = NoTask,
                     !.drafts = Append(b.drafts, [chat |-> task.chat, flow |-> task.state.flow]),
                     !.backend = b.backend \cup {<<task.chat, "draft">>},
                     !.answer = Answer(task.chat, "Step 4/4: send banner image.")]

\* _send_push_from_text with the outcome of POST /push/test
_send_push_from_text(b, chat, body, sent) ==
    IF ~_is_chat_allowed_chat_id(chat) THEN AccessDenied(b, chat)
    ELSE IF Strip(body) = ""
    THEN [b EXCEPT !.answer = Answer(chat, "Notification text is empty.")]
    ELSE IF ~sent
    THEN [b EXCEPT !.answer = Answer(chat, "Push send failed")]
    ELSE [b EXCEPT !.backend = b.backend \cup {<<chat, "push">>},
                   !.answer = Answer(chat, "Push status")]

on_plain_text(b, chat, raw, sent) ==
    LET text == Strip(raw)
        state == b.states[chat]
    IN  IF text = "" THEN [b EXCEPT !.answer = NoAnswer]
        ELSE IF state # NoWizard
        THEN IF StartsWith(text, "/")
             THEN [b EXCEPT !.answer = Answer(chat, "Event creation is active. Continue steps or use /cancel.")]
             ELSE _handle_create_event_text_step(b, chat, text, state)
        ELSE IF StartsWith(text, "/")
        THEN [b EXCEPT !.answer = Answer(chat, "Unknown command. Use /start")]
        ELSE _send_push_from_text(b, chat, text, sent)

\* what a message carries: a photo, or a document with its mime type
Attachments == {"photo", "image/png", "application/pdf"}

\* _download_banner_from_message finds an image in the message
IsImage(attachment) == attachment = "photo" \/ StartsWith(attachment, "image/")

\* on_banner_upload up to its return or to the awaits of the download and of
\* _upload_event_banner
on_banner_upload(b, chat, attachment) ==
    LET state == b.states[chat]
    IN  IF state = NoWizard THEN [b EXCEPT !.answer = NoAnswer]
        ELSE IF state.step # "banner" THEN [b EXCEPT !.answer = NoAnswer]
        ELSE IF ~_is_chat_allowed_chat_id(chat) THEN AccessDenied(b, chat)
        ELSE IF ~Truthy(state.event_id)
        THEN [_clear_create_event_state(b, chat)
              EXCEPT !.answer = Answer(chat, "Flow state is invalid. Start again with /create_event.")]
        ELSE IF ~IsImage(attachment)
        THEN [b EXCEPT !.answer = Answer(chat, "Please send a photo or an image document.")]
        ELSE Await(b, "_upload_event_banner", chat, state, attachment)

\* on_banner_upload after the await: the banner is stored and the state of
\* the chat is cleared, or the exception of the request
UploadBannerReturned(b, t, uploaded) ==
    LET task == b.tasks[t]
    IN  IF ~uploaded
        THEN [b EXCEPT !.tasks[t] = NoTask,
                       !.answer = Answer(task.chat, "Failed to upload banner")]
        ELSE [_clear_create_event_state(b, task.chat)
              EXCEPT !.tasks[t] = NoTask,
                     !.backend = b.backend \cup {<<task.chat, "banner">>},
                     !.answer = Answer(task.chat, "Event draft created successfully.")]

\* ------------------------------------------------------- specification
NoRequest == Request("none", 0, NoBody, 0, "absent", {}, <<>>, <<>>, <<>>, NoBody)

\* the server is between requests: the last reply has gone out
Idle == last = NoRequest

\* the reply of the last request goes out
Reply ==
    /\ ~Idle
    /\ last' = NoRequest
    /\ UNCHANGED <<events, devices, enabled, published_calls>>
    /\ UNCHANGED <<pointsVars, sideVars, calls>>

\* the devices table a run of the events handlers starts from
InitialRegistries == {<<>>, <<Device(TokenTable[1], "android")>>}

Init ==
    /\ events = [e \in EventIds |-> NoEvent]
    /\ devices \in InitialRegistries
    /\ enabled \in BOOLEAN
    /\ published_calls = [e \in EventIds |-> 0]
    /\ last = NoRequest
    /\ NoPoints
    /\ NoCalls
    /\ NoBlocks
    /\ NoBot

CreateEvent ==
    /\ Idle
    /\ \E title \in Titles, datetime_start \in DateTimes, location \in Locations :
        create_event(title, datetime_start, location)
    /\ UNCHANGED <<pointsVars, sideVars, calls>>

UpdateEvent ==
    /\ Idle
    /\ \E event_id \in EventIds, title \in Titles, datetime_start \in DateTimes,
       location \in Locations :
        update_event(event_id, title, datetime_start, location)
    /\ UNCHANGED <<pointsVars, sideVars, calls>>

UploadBanner ==
    /\ Idle
    /\ \E event_id \in EventIds, banner_url \in BannerUrls \ {None} :
        upload_banner(event_id, banner_url)
    /\ UNCHANGED <<pointsVars, sideVars, calls>>

PublishEvent ==
    /\ Idle
    /\ \E event_id \in EventIds, db \in Sessions(devices), fcm \in FcmAnswers(devices) :
        publish_event(event_id, db, fcm)
    /\ UNCHANGED <<pointsVars, sideVars, calls>>

DeleteEvent ==
    /\ Idle
    /\ \E event_id \in EventIds :
        delete_event(event_id)
    /\ UNCHANGED <<pointsVars, sideVars, calls>>

Next ==
    \/ CreateEvent
    \/ UpdateEvent
    \/ UploadBanner
    \/ PublishEvent
    \/ DeleteEvent
    \/ Reply

Spec == Init /\ [][Next]_vars

\* ---------------------------------- specification of the delivery engine
\* the devices registry and the delivery engine, driven by registrations,
\* diagnostic sends, operator re-sends and the publish of one event that has
\* its four required fields, if that event was created
InitPush ==
    /\ events \in {[e \in EventIds |-> NoEvent],
                   [e \in EventIds |->
                      IF e = 1
                      THEN Event("science day", "2026-02-11T13:30:00+00:00", "assembly hall",
                                 "http://testserver/media/banner.png", "draft")
                      ELSE NoEvent]}
    /\ devices = <<>>
    /\ enabled \in BOOLEAN
    /\ published_calls = [e \in EventIds |-> 0]
    /\ last = NoRequest
    /\ NoPoints
    /\ NoCalls
    /\ NoBlocks
    /\ NoBot

RegisterDevice ==
    /\ Idle
    /\ \E fcm_token \in Tokens, platform \in Platforms :
        register_device(fcm_token, platform)
    /\ UNCHANGED <<pointsVars, sideVars, calls>>

PushTest ==
    /\ Idle
    /\ \E db \in Sessions(devices), fcm \in FcmAnswers(devices) :
        push_test("Ping", "Push check", db, fcm)
    /\ UNCHANGED <<pointsVars, sideVars, calls>>

PushReconEvent ==
    /\ Idle
    /\ \E event_id \in EventIds, notification_type \in NotificationType,
       db \in Sessions(devices), fcm \in FcmAnswers(devices) :
        push_recon_event(event_id, notification_type, db, fcm)
    /\ UNCHANGED <<pointsVars, sideVars, calls>>

NextPush ==
    \/ RegisterDevice
    \/ PushTest
    \/ PushReconEvent
    \/ PublishEvent
    \/ Reply

SpecPush == InitPush /\ [][NextPush]_vars

\* ------------------------------ specification of the diagnostic fan-out
\* POST /push/test over registries of up to MaxFanoutTokens devices
FanoutToken(i) == "dev" \o ToString(i) \o "-fcm-registration-token"

FanoutRegistries ==
    {[i \in 1..n |-> Device(FanoutToken(i), "android")] : n \in 0..MaxFanoutTokens}

\* per token the send returns, fails as unregistered, or times out
FanoutOutcomes == {SEND_OK, "Requested entity was not found.", "Timed out"}

FanoutAnswers(rows) ==
    {Fcm(send, topic) :
        send \in [{rows[i].fcm_token : i \in 1..Len(rows)} -> FanoutOutcomes],
        topic \in TopicOutcomes}

InitFanout ==
    /\ events = [e \in EventIds |-> NoEvent]
    /\ devices \in FanoutRegistries
    /\ enabled \in BOOLEAN
    /\ published_calls = [e \in EventIds |-> 0]
    /\ last = NoRequest
    /\ NoPoints
    /\ NoCalls
    /\ NoBlocks
    /\ NoBot

PushTestFanout ==
    /\ Idle
    /\ \E db \in Sessions(devices), fcm \in FanoutAnswers(devices) :
        push_test("Ping", "Push check", db, fcm)
    /\ UNCHANGED <<pointsVars, sideVars, calls>>

NextFanout ==
    \/ PushTestFanout
    \/ Reply

SpecFanout == InitFanout /\ [][NextFanout]_vars

\* ------------------------------------ specification of the message text
\* _build_message over event rows of every shape, for every notification type
MessageDateTimes == DateTimes \cup {"2026-11-05T09:07:00+00:00"}

MessageEvents ==
    {Event(title, datetime_start, location, None, "draft") :
        title \in Titles, datetime_start \in MessageDateTimes, location \in Locations}

InitMessage ==
    /\ events \in [EventIds -> MessageEvents]
    /\ devices = <<>>
    /\ enabled = TRUE
    /\ published_calls = [e \in EventIds |-> 0]
    /\ last = NoRequest
    /\ NoPoints
    /\ NoCalls
    /\ NoBlocks
    /\ NoBot

BuildMessage ==
    /\ Idle
    /\ \E event_id \in EventIds, notification_type \in NotificationType :
        /\ last' = Request("_build_message", event_id, PushReconRequest(notification_type), 200,
                           events[event_id].status, {}, devices, <<>>, <<>>,
                           _build_message(event_id, notification_type))
        /\ UNCHANGED <<events, devices, enabled, published_calls>>
    /\ UNCHANGED <<pointsVars, sideVars, calls>>

NextMessage ==
    \/ BuildMessage
    \/ Reply

SpecMessage == InitMessage /\ [][NextMessage]_vars

\* ---------------------------------- specification of the date formatter
\* _format_ru_short_datetime on values whose month is any number around the
\* calendar range
MonthValues == (1 - MaxMonthOffset)..(12 + MaxMonthOffset)

FormatDateTime ==
    /\ Idle
    /\ \E month \in MonthValues, day \in {1, 5, 31}, hour \in {0, 9, 23}, minute \in {7, 30} :
        last' = Request("_format_ru_short_datetime", 0,
                        [month |-> month, day |-> day, hour |-> hour, minute |-> minute],
                        200, "absent", {}, devices, <<>>, <<>>,
                        FormatFields(month, day, hour, minute))
    /\ UNCHANGED <<eventVars, pointsVars, sideVars, calls>>

NextFormat ==
    \/ FormatDateTime
    \/ Reply

SpecFormat == InitMessage /\ [][NextFormat]_vars

\* ------------------------------------ specification of the class points
\* the seeded classes and the points operations of an admin on them
ClassNames == <<"5A", "5B", "6A", "6B">>
PointDeltas == {-10, 5, 10}
Categories == {"sport", "study"}

\* every class but the last id is seeded, with no points
InitPoints ==
    /\ events = [e \in EventIds |-> NoEvent]
    /\ devices = <<>>
    /\ enabled = FALSE
    /\ published_calls = [e \in EventIds |-> 0]
    /\ last = NoRequest
    /\ classes = [c \in ClassIds |->
                    IF c < MaxClasses
                    THEN SchoolClass(ClassNames[c], 0) ELSE NoClass]
    /\ point_transactions = <<>>
    /\ NoCalls
    /\ NoBlocks
    /\ NoBot

AddPoints ==
    /\ Idle
    /\ \E class_id \in ClassIds, delta_points \in PointDeltas, category \in Categories :
        add_points(class_id, delta_points, category)
    /\ UNCHANGED <<eventVars, calls, sideVars>>

PointsHistory ==
    /\ Idle
    /\ \E class_id \in ClassIds : points_history(class_id)
    /\ UNCHANGED <<eventVars, calls, sideVars>>

NextPoints ==
    \/ AddPoints
    \/ PointsHistory
    \/ Reply

SpecPoints == InitPoints /\ [][NextPoints]_vars

\* --------------------------------- specification of the calls, step by step
\* Calls of the push service in the threads of the worker pool, each with a
\* Session of its own on the one devices table: the registry read, the send
\* loop, the SELECT and the DELETE/commit of the prune and the topic send are
\* steps of their own, and the steps of different calls interleave.  The
\* statements of the sessions go through here.
CallKinds == {"new", "test"}

\* per token the send returns, fails as unregistered, or times out
CallOutcomes == {SEND_OK, "Requested entity was not found.", "Timed out"}

CallRegistries == {[i \in 1..n |-> Device(TokenTable[i], "android")] : n \in 0..MaxTokens}

\* mutation of TokenToSend: the loop variable stays on the first token
TokenToSend_first(call) == call.tokens[1]

\* for token in tokens: the token of the next pass of the loop
TokenToSend(call) == call.tokens[Len(call.attempts) + 1]

\* mutation of LoopDone: the loop is left after its first pass
LoopDone_after_first(call) == Len(call.attempts) >= 1

\* the for loop has gone through the list
LoopDone(call) == Len(call.attempts) >= Len(call.tokens)

\* mutation of StaleDeleteRaises: the mapper checks the row count of a DELETE
StaleDeleteRaises_checked == TRUE

\* Device has no version_id_col: a DELETE that matches fewer rows than the
\* session expected is a warning of the ORM, not an exception
StaleDeleteRaises == FALSE

\* the rows of a list that are still in the table
StillThere(rows) == SelectSeq(rows, LAMBDA row : \E i \in 1..Len(devices) : devices[i] = row)

\* a request comes in and calls _send_event or send_test_notification, which
\* returns at once when the service is disabled
StartCall(c) ==
    /\ calls[c].pc = "idle"
    /\ \E notification_type \in CallKinds :
        calls' = [calls EXCEPT ![c] = [NoCall EXCEPT !.notification_type = notification_type,
                                                     !.pc = IF PushDisabled THEN "done" ELSE "collect"]]
    /\ UNCHANGED <<eventVars, last, pointsVars, sideVars>>

\* tokens = self._collect_device_tokens(db); _send_event skips the loop and
\* the prune when the list is empty
CollectTokens(c) ==
    /\ calls[c].pc = "collect"
    /\ LET tokens == _collect_device_tokens(HealthySession(devices))
       IN  calls' = [calls EXCEPT ![c].tokens = tokens,
                                  ![c].pc = IF Len(tokens) > 0 THEN "send"
                                            ELSE IF calls[c].notification_type = "test" THEN "prune"
                                            ELSE "topic"]
    /\ UNCHANGED <<eventVars, last, pointsVars, sideVars>>

\* one pass of the loop: messaging.send for the token returns or raises
SendToToken(c) ==
    /\ calls[c].pc = "send"
    /\ \E outcome \in CallOutcomes :
        LET sent == [calls[c] EXCEPT !.attempts =
                        Append(@, [token |-> TokenToSend(calls[c]), outcome |-> outcome])]
        IN  calls' = [calls EXCEPT ![c] = [sent EXCEPT !.pc = IF LoopDone(sent) THEN "prune" ELSE "send"]]
    /\ UNCHANGED <<eventVars, last, pointsVars, sideVars>>

\* _prune_invalid_tokens up to its SELECT: nothing to do without invalid
\* tokens, nothing to commit without rows
PruneSelect(c) ==
    /\ calls[c].pc = "prune"
    /\ LET tokens == InvalidTokens(calls[c].attempts)
           rows == PrunedRows(HealthySession(devices), tokens)
       IN  calls' = IF Len(tokens) = 0 \/ Len(DedupKeepFirst(tokens)) = 0
                    THEN [calls EXCEPT ![c].pc = "topic"]
                    ELSE [calls EXCEPT ![c].selected = rows,
                                       ![c].pc = IF Len(rows) > 0 THEN "commit" ELSE "topic"]
    /\ UNCHANGED <<eventVars, last, pointsVars, sideVars>>

\* db.delete(row) for the rows of the SELECT, and db.commit()
PruneCommit(c) ==
    /\ calls[c].pc = "commit"
    /\ LET matched == StillThere(calls[c].selected)
       IN  IF matched # calls[c].selected /\ StaleDeleteRaises
           THEN /\ calls' = [calls EXCEPT ![c].pc = "raised"]
                /\ UNCHANGED devices
           ELSE /\ calls' = [calls EXCEPT ![c].removed = matched, ![c].pc = "topic"]
                /\ devices' = SelectSeq(devices,
                                 LAMBDA row : \A i \in 1..Len(matched) : matched[i] # row)
    /\ UNCHANGED <<events, enabled, published_calls, last, pointsVars, sideVars>>

\* if delivered == 0: the one send to the topic; then the call returns
TopicOrReturn(c) ==
    /\ calls[c].pc = "topic"
    /\ IF Delivered(calls[c].attempts) = 0
       THEN \E outcome \in TopicOutcomes :
               calls' = [calls EXCEPT ![c].topic_attempts = @ + 1,
                                      ![c].topic_delivered = (outcome = SEND_OK),
                                      ![c].pc = "done"]
       ELSE calls' = [calls EXCEPT ![c].pc = "done"]
    /\ UNCHANGED <<eventVars, last, pointsVars, sideVars>>

InitCalls ==
    /\ events = [e \in EventIds |-> NoEvent]
    /\ devices \in CallRegistries
    /\ enabled \in BOOLEAN
    /\ published_calls = [e \in EventIds |-> 0]
    /\ last = NoRequest
    /\ NoPoints
    /\ NoCalls
    /\ NoBlocks
    /\ NoBot

NextCalls ==
    \E c \in CallIds :
        \/ StartCall(c)
        \/ CollectTokens(c)
        \/ SendToToken(c)
        \/ PruneSelect(c)
        \/ PruneCommit(c)
        \/ TopicOrReturn(c)

SpecCalls == InitCalls /\ [][NextCalls]_vars

\* ------------------------------- specification of the order of the rows
\* select(Device.fcm_token) has no ORDER BY: the database hands the rows of
\* the table over in an order of its choosing
ScanOrders(rows) ==
    {[i \in 1..Len(rows) |-> rows[p[i]]] : p \in Permutations(1..Len(rows))}

\* the registries of up to MaxTokens devices, in every order of registration
OrderRegistries ==
    UNION {ScanOrders([i \in 1..n |-> Device(TokenTable[i], "android")]) : n \in 0..MaxTokens}
    \cup ScanOrders([i \in 1..(MaxTokens - 1) |-> Device(TokenTable[i + 1], "ios")])

InitOrder ==
    /\ events = [e \in EventIds |-> NoEvent]
    /\ devices \in OrderRegistries
    /\ enabled \in BOOLEAN
    /\ published_calls = [e \in EventIds |-> 0]
    /\ last = NoRequest
    /\ NoPoints
    /\ NoCalls
    /\ NoBlocks
    /\ NoBot

\* the same notify call made twice on the same table and the same answers of
\* the provider and of the database, the rows read in two orders
NotifyInTwoOrders ==
    /\ Idle
    /\ \E notification_type \in NotificationType, order \in ScanOrders(devices),
          read \in DbOutcomes, write \in DbOutcomes,
          send \in [RegisteredRows(devices) -> CallOutcomes], topic \in TopicOutcomes :
        last' = Request("_send_event", 1, [order |-> order, send |-> send], 200, "absent", {},
                        devices, <<>>,
                        <<_send_event(1, notification_type, Session(devices, read, write),
                                      Fcm(send, topic)),
                          _send_event(1, notification_type, Session(order, read, write),
                                      Fcm(send, topic))>>,
                        NoBody)
    /\ UNCHANGED <<eventVars, pointsVars, sideVars, calls>>

\* a notify call reads the registry
CollectDeviceTokens ==
    /\ Idle
    /\ \E rows \in ScanOrders(devices) :
        last' = Request("_collect_device_tokens", 0, [rows |-> rows], 200, "absent", {},
                        devices, <<>>, <<>>,
                        [tokens |-> _collect_device_tokens(HealthySession(rows))])
    /\ UNCHANGED <<eventVars, pointsVars, sideVars, calls>>

NextOrder ==
    \/ NotifyInTwoOrders
    \/ CollectDeviceTokens
    \/ RegisterDevice
    \/ Reply

SpecOrder == InitOrder /\ [][NextOrder]_vars

\* ------------------------------------- specification of the guarded route
\* POST /push/test asked with and without the token of an admin, over the
\* registries that registrations build
BearerTokens ==
    {NoCredentials,
     Credentials(FALSE, FALSE, "admin-1"),
     Credentials(TRUE, TRUE, "admin-1"),
     Credentials(TRUE, FALSE, None),
     Credentials(TRUE, FALSE, "admin-9"),
     Credentials(TRUE, FALSE, "admin-1")}

InitAuth ==
    /\ events = [e \in EventIds |-> NoEvent]
    /\ devices = <<>>
    /\ enabled \in BOOLEAN
    /\ published_calls = [e \in EventIds |-> 0]
    /\ last = NoRequest
    /\ NoPoints
    /\ NoCalls
    /\ NoBlocks
    /\ NoBot

PostPushTest ==
    /\ Idle
    /\ \E credentials \in BearerTokens, db \in Sessions(devices), fcm \in FcmAnswers(devices) :
        post_push_test(credentials, "Ping", "Push check", db, fcm)
    /\ UNCHANGED <<pointsVars, sideVars, calls>>

NextAuth ==
    \/ RegisterDevice
    \/ PostPushTest
    \/ Reply

SpecAuth == InitAuth /\ [][NextAuth]_vars

\* ------------------------------------ specification of the public catalog
\* the public reads of the events table, and the delete request, over tables
\* of up to MaxCatalogEvents rows created in the order of their ids
CatalogIds == 1..MaxCatalogEvents

\* a published row has its four required fields; a draft may lack its start
\* time and has no banner here
CatalogRows ==
    {NoEvent}
    \cup {Event("science day", Instants[i], "assembly hall",
                "http://testserver/media/banner.png", "published") : i \in 1..Len(Instants)}
    \cup {Event("science day", d, "assembly hall", None, "draft") :
            d \in {None} \cup {Instants[i] : i \in 1..Len(Instants)}}

InitCatalog ==
    /\ events \in [CatalogIds -> CatalogRows]
    /\ devices = <<>>
    /\ enabled = FALSE
    /\ published_calls = [e \in CatalogIds |-> 0]
    /\ last = NoRequest
    /\ NoPoints
    /\ NoCalls
    /\ NoBlocks
    /\ NoBot

ListEvents ==
    /\ Idle
    /\ \E from_value \in {None, "", "now", "tomorrow", Instants[2]}, limit \in {1, 20},
          now \in {Instants[1], Instants[3]} :
        list_events(from_value, limit, now)
    /\ UNCHANGED <<pointsVars, sideVars, calls>>

EventDetails ==
    /\ Idle
    /\ \E event_id \in CatalogIds : event_details(event_id)
    /\ UNCHANGED <<pointsVars, sideVars, calls>>

DeleteCatalogEvent ==
    /\ Idle
    /\ \E event_id \in CatalogIds : delete_event(event_id)
    /\ UNCHANGED <<pointsVars, sideVars, calls>>

NextCatalog ==
    \/ ListEvents
    \/ EventDetails
    \/ DeleteCatalogEvent
    \/ Reply

SpecCatalog == InitCatalog /\ [][NextCatalog]_vars

\* ------------------------------------ specification of the event editor
\* the admin's requests on three events (one not created yet, one draft with
\* its required fields, one published) and on their blocks
InitEditor ==
    /\ events = [e \in CatalogIds |->
                   IF e = 1 THEN NoEvent
                   ELSE Event("science day", Instants[1], "assembly hall",
                              "http://testserver/media/banner.png",
                              IF e = 2 THEN "draft" ELSE "published")]
    /\ devices = <<>>
    /\ enabled = FALSE
    /\ published_calls = [e \in CatalogIds |-> 0]
    /\ last = NoRequest
    /\ NoPoints
    /\ NoCalls
    /\ NoBlocks
    /\ NoBot

CreateDraft ==
    /\ Idle
    /\ create_event("science day", None, "assembly hall")
    /\ UNCHANGED <<pointsVars, sideVars, calls>>

EditEvent ==
    /\ Idle
    /\ \E event_id \in CatalogIds : update_event(event_id, "science day v2", None, None)
    /\ UNCHANGED <<pointsVars, sideVars, calls>>

UploadEventBanner ==
    /\ Idle
    /\ \E event_id \in CatalogIds : upload_banner(event_id, "http://testserver/media/banner.png")
    /\ UNCHANGED <<pointsVars, sideVars, calls>>

PublishEdited ==
    /\ Idle
    /\ \E event_id \in CatalogIds :
        publish_event(event_id, HealthySession(devices), HealthyFcm(devices))
    /\ UNCHANGED <<pointsVars, sideVars, calls>>

\* the block requests of the editor, on the blocks of the last event
EditBlocks ==
    /\ Idle
    /\ \/ add_block(MaxCatalogEvents, "text", 0)
       \/ \E block_id \in BlockIds : delete_block(MaxCatalogEvents, block_id)
       \/ \E block_id \in BlockIds :
             reorder_blocks(MaxCatalogEvents, <<EventBlockReorderItem(block_id, 1)>>)
    /\ UNCHANGED <<pointsVars, calls, bot>>

NextEditor ==
    \/ CreateDraft
    \/ EditEvent
    \/ UploadEventBanner
    \/ PublishEdited
    \/ EditBlocks
    \/ Reply

SpecEditor == InitEditor /\ [][NextEditor]_vars

\* ------------------------------------- specification of the event blocks
\* the block requests of the admin on the blocks of the events of InitEditor,
\* a reorder naming up to two blocks
SortOrders == {0, 1}

ReorderPayloads ==
    LET items == {EventBlockReorderItem(b, o) : b \in BlockIds, o \in SortOrders}
    IN  {<<>>} \cup {<<i>> : i \in items} \cup {<<i, j>> : i \in items, j \in items}

AddBlock ==
    /\ Idle
    /\ \E event_id \in CatalogIds, type \in {"text", "image"}, sort_order \in SortOrders :
        add_block(event_id, type, sort_order)
    /\ UNCHANGED <<pointsVars, calls, bot>>

DeleteBlock ==
    /\ Idle
    /\ \E event_id \in CatalogIds, block_id \in BlockIds : delete_block(event_id, block_id)
    /\ UNCHANGED <<pointsVars, calls, bot>>

ReorderBlocks ==
    /\ Idle
    /\ \E event_id \in CatalogIds, payload \in ReorderPayloads : reorder_blocks(event_id, payload)
    /\ UNCHANGED <<pointsVars, calls, bot>>

NextBlocks ==
    \/ AddBlock
    \/ DeleteBlock
    \/ ReorderBlocks
    \/ Reply

SpecBlocks == InitEditor /\ [][NextBlocks]_vars

\* ------------------------- specification of the points requests, step by step
\* add_points requests in the threads of the worker pool, each with a Session
\* of its own: db.get loads the row, the handler adds the delta to the loaded
\* total, and db.commit() writes the INSERT of the transaction and the UPDATE
\* of total_points with the value the handler computed
PointsCall(pc, class_id, delta_points, total_points, status) ==
    [pc |-> pc, class_id |-> class_id, delta_points |-> delta_points,
     total_points |-> total_points, status |-> status]

\* no add_points request is between its db.get and its db.commit()
PointsSettled == \A c \in CallIds : calls[c].pc \in {"idle", "done"}

\* school_class = db.get(SchoolClass, class_id); 404 if there is no row
AddPointsGet(c) ==
    /\ calls[c].pc = "idle"
    /\ Len(point_transactions) + Cardinality({d \in CallIds : calls[d].pc = "loaded"}) < MaxTransactions
    /\ \E class_id \in ClassIds, delta_points \in PointDeltas :
        calls' = [calls EXCEPT ![c] =
                    IF ~ClassExists(class_id)
                    THEN PointsCall("done", class_id, delta_points, 0, 404)
                    ELSE PointsCall("loaded", class_id, delta_points,
                                    classes[class_id].total_points, 0)]
    /\ UNCHANGED <<eventVars, last, pointsVars, sideVars>>

\* school_class.total_points += payload.delta_points; db.add(transaction);
\* db.commit(); db.refresh(school_class)
AddPointsCommit(c) ==
    /\ calls[c].pc = "loaded"
    /\ LET call == calls[c]
           total_points == NewTotal(call.total_points, call.delta_points)
       IN  /\ classes' = [classes EXCEPT ![call.class_id].total_points = total_points]
           /\ point_transactions' =
                Append(point_transactions, PointTransaction(call.class_id, call.delta_points, "study"))
           /\ calls' = [calls EXCEPT ![c] = PointsCall("done", call.class_id, call.delta_points,
                                                       total_points, 200)]
    /\ UNCHANGED <<eventVars, last, sideVars>>

\* the reply is sent and the thread takes the next request
AddPointsReturn(c) ==
    /\ calls[c].pc = "done"
    /\ calls' = [calls EXCEPT ![c] = NoCall]
    /\ UNCHANGED <<eventVars, last, pointsVars, sideVars>>

NextPointsCalls ==
    \/ \E c \in CallIds : AddPointsGet(c)
    \/ \E c \in CallIds : AddPointsCommit(c)
    \/ \E c \in CallIds : AddPointsReturn(c)

SpecPointsCalls == InitPoints /\ [][NextPointsCalls]_vars

\* ------------------- specification of the register requests, step by step
\* register_device requests in the threads of the worker pool, each with a
\* Session of its own: the SELECT by fcm_token, then db.commit() with the
\* UPDATE of the row found or the INSERT of a new row; devices.fcm_token is
\* unique, so the INSERT of a token the table holds by then raises
\* IntegrityError, which no handler catches: the reply is 500
RegisterCall(pc, fcm_token, platform, existing, status) ==
    [pc |-> pc, fcm_token |-> fcm_token, platform |-> platform, existing |-> existing,
     status |-> status]

HasToken(rows, fcm_token) == \E i \in 1..Len(rows) : rows[i].fcm_token = fcm_token

\* unique=True on Device.fcm_token
UniqueViolation(rows, fcm_token) == HasToken(rows, fcm_token)

\* existing = db.scalar(select(Device).where(Device.fcm_token == payload.fcm_token))
RegisterSelect(c) ==
    /\ calls[c].pc = "idle"
    /\ \E fcm_token \in Tokens, platform \in Platforms :
        calls' = [calls EXCEPT ![c] =
                    RegisterCall("selected", fcm_token, platform, HasToken(devices, fcm_token), 0)]
    /\ UNCHANGED <<eventVars, last, pointsVars, sideVars>>

\* existing.platform = payload.platform or db.add(Device(...)); db.commit()
RegisterCommit(c) ==
    /\ calls[c].pc = "selected"
    /\ LET call == calls[c]
       IN  IF call.existing
           THEN /\ devices' = UpsertDevice(devices, call.fcm_token, call.platform)
                /\ calls' = [calls EXCEPT ![c].pc = "done", ![c].status = 200]
           ELSE IF UniqueViolation(devices, call.fcm_token)
           THEN /\ devices' = devices
                /\ calls' = [calls EXCEPT ![c].pc = "done", ![c].status = 500]
           ELSE /\ devices' = Append(devices, Device(call.fcm_token, call.platform))
                /\ calls' = [calls EXCEPT ![c].pc = "done", ![c].status = 200]
    /\ UNCHANGED <<events, enabled, published_calls, last, pointsVars, sideVars>>

\* a thread that has replied takes the next request
RegisterReturn(c) ==
    /\ calls[c].pc = "done"
    /\ calls' = [calls EXCEPT ![c] = NoCall]
    /\ UNCHANGED <<eventVars, last, pointsVars, sideVars>>

NextRegisterCalls ==
    \/ \E c \in CallIds : RegisterSelect(c)
    \/ \E c \in CallIds : RegisterCommit(c)
    \/ \E c \in CallIds : RegisterReturn(c)

SpecRegisterCalls == Init /\ [][NextRegisterCalls]_vars

\* ------------------------------ specification of the bot's backend requests
\* _request_json_with_auth and _upload_event_banner, one request at a time,
\* await by await, against a backend that answers each login and each
\* request with any of its statuses
InitBot ==
    /\ events = [e \in EventIds |-> NoEvent]
    /\ devices = <<>>
    /\ enabled = FALSE
    /\ published_calls = [e \in EventIds |-> 0]
    /\ last = NoRequest
    /\ NoPoints
    /\ NoCalls
    /\ NoBlocks
    /\ NoBot

BotFrame == UNCHANGED <<eventVars, last, pointsVars, calls, blocks>>

\* a handler calls _request_json_with_auth or _upload_event_banner
BeginRequest ==
    /\ bot.request.pc = "idle"
    /\ bot.issued + 2 <= MaxLogins
    /\ \E path \in BotPaths : bot' = [bot EXCEPT !.request = BotRequest("ensure", path, 0, 0, 0, 0)]
    /\ BotFrame

\* token = await _ensure_token(session)
EnsureToken ==
    /\ bot.request.pc = "ensure"
    /\ \E status \in LoginAnswers : bot' = _ensure_token(bot, status)
    /\ BotFrame

\* the request with the token held
SendRequest ==
    /\ bot.request.pc = "send"
    /\ \E status \in ApiStatuses :
        bot' = [bot EXCEPT !.request.api_calls = @ + 1, !.request.status = status,
                          !.request.pc = AfterFirst(status)]
    /\ BotFrame

\* auth_state.token = await _api_login(session) after a 401
LoginAgain ==
    /\ bot.request.pc = "relogin"
    /\ \E status \in LoginAnswers : bot' = _api_login(bot, status, "retry", 1)
    /\ BotFrame

\* the request again, with the new token
RetryRequest ==
    /\ bot.request.pc = "retry"
    /\ \E status \in ApiStatuses :
        bot' = [bot EXCEPT !.request.api_calls = @ + 1, !.request.status = status,
                          !.request.pc = AfterRetry(status)]
    /\ BotFrame

\* the data is returned or the RuntimeError raised to the caller
EndRequest ==
    /\ bot.request.pc \in {"returned", "raised"}
    /\ bot' = [bot EXCEPT !.request = NoBotRequest]
    /\ BotFrame

\* the steps of a request that has begun
RequestStep == EnsureToken \/ SendRequest \/ LoginAgain \/ RetryRequest \/ EndRequest

NextBotAuth ==
    \/ BeginRequest
    \/ EnsureToken
    \/ SendRequest
    \/ LoginAgain
    \/ RetryRequest
    \/ EndRequest

\* every await of the request ends: aiohttp answers or raises within
\* HTTP_TIMEOUT_SECONDS
SpecBotAuth == InitBot /\ [][NextBotAuth]_vars /\ WF_vars(RequestStep)

\* ------------------------------------- specification of the bot's wizard
\* the updates of the chats, each handled as a task of the event loop: a
\* handler runs up to its await on the backend, other updates are handled
\* meanwhile, and the handler goes on when the backend has answered
LongTitle ==
    LET x16 == "0123456789abcdef"
        x64 == x16 \o x16 \o x16 \o x16
    IN  x64 \o x64 \o x64 \o x64

Texts == {"Science day", "26.02.2026", "31.02.2026", "18:30", "/help", LongTitle}

CmdCreateEvent ==
    /\ bot.flows < MaxFlows
    /\ \E chat \in ChatIds : bot' = cmd_create_event(bot, chat)
    /\ BotFrame

CmdCancel ==
    /\ \E chat \in ChatIds : bot' = cmd_cancel(bot, chat)
    /\ BotFrame

OnPlainText ==
    /\ \E t \in TaskIds : bot.tasks[t] = NoTask
    /\ \E chat \in ChatIds, raw \in Texts, sent \in BOOLEAN : bot' = on_plain_text(bot, chat, raw, sent)
    /\ BotFrame

OnBannerUpload ==
    /\ \E t \in TaskIds : bot.tasks[t] = NoTask
    /\ \E chat \in ChatIds, attachment \in Attachments : bot' = on_banner_upload(bot, chat, attachment)
    /\ BotFrame

CreateDraftReturns ==
    /\ \E t \in TaskIds, created \in BOOLEAN :
        /\ bot.tasks[t] # NoTask
        /\ bot.tasks[t].handler = "_create_event_draft"
        /\ created => Len(bot.drafts) < MaxDrafts
        /\ bot' = CreateDraftReturned(bot, t, created)
    /\ BotFrame

UploadBannerReturns ==
    /\ \E t \in TaskIds, uploaded \in BOOLEAN :
        /\ bot.tasks[t] # NoTask
        /\ bot.tasks[t].handler = "_upload_event_banner"
        /\ bot' = UploadBannerReturned(bot, t, uploaded)
    /\ BotFrame

NextWizard ==
    \/ CmdCreateEvent
    \/ CmdCancel
    \/ OnPlainText
    \/ OnBannerUpload
    \/ CreateDraftReturns
    \/ UploadBannerReturns

SpecWizard == InitBot /\ [][NextWizard]_vars

\* ------------------------------------------------------------ properties
\* the notification kinds of the delivery runs a request started, in order
KindsOf(req) == [i \in 1..Len(req.pushes) |-> req.pushes[i].notification_type]

\* the delivery runs of the last request that went through _send_event
NotifyRuns == {i \in 1..Len(last.pushes) : last.pushes[i].notification_type \in NotificationType}

\* per-token sends of a run that succeeded
Succeeded(run) == {j \in 1..Len(run.attempts) : run.attempts[j].outcome = SEND_OK}

RegisteredTokens(rows) == {rows[i].fcm_token : i \in 1..Len(rows)}

\* a column value that is present: neither null nor the empty string
Present(v) == v \notin {None, ""}

RequiredFields == {"title", "datetime_start", "location", "banner_image_url"}

\* the provider errors that carry an invalid-token marker, whatever their case
MarkedInvalid == {"Requested entity was not found.", "registration-token-not-registered"}

\* C1: over any sequence of publish calls on an event, send_event_published
\* is called at most once for it: a publish of an event that is already
\* published replies 200 and starts no delivery.
C1_NewFiredAtMostOnce ==
    /\ \A e \in EventIds : published_calls[e] <= 1
    /\ (last.op = "publish_event" /\ last.pre_status = "published")
         => (last.status = 200 /\ last.pushes = <<>>)

\* C2: in every _send_event call with the provider enabled, no topic send is
\* attempted if some per-token send succeeded, and exactly one topic send is
\* attempted if none did.
C2_TokenXorTopic ==
    \A i \in NotifyRuns :
        LET run == last.pushes[i]
        IN  ~run.skipped =>
               /\ Succeeded(run) # {} => run.topic_attempts = 0
               /\ Succeeded(run) = {} => run.topic_attempts = 1

\* C3: after a notify or sendTest call that returned, a token it sent to is
\* absent from the registry exactly if its send failed with an error that
\* carries an invalid-token marker; tokens whose send succeeded or failed
\* otherwise (a timeout included) are still registered.
C3_PrunedIffInvalid ==
    \A i \in 1..Len(last.pushes) :
        LET run == last.pushes[i]
        IN  ~run.raised =>
               \A j \in 1..Len(run.attempts) :
                   (run.attempts[j].token \notin RegisteredTokens(devices))
                       <=> (run.attempts[j].outcome \in MarkedInvalid)

\* C3 witness: a notify that returned after one token failed as invalid and
\* another timed out
C3_Witness ==
    /\ last.op = "push_recon_event"
    /\ Len(last.pushes) = 1
    /\ ~last.pushes[1].raised
    /\ \E j, k \in 1..Len(last.pushes[1].attempts) :
           /\ last.pushes[1].attempts[j].outcome = "Requested entity was not found."
           /\ last.pushes[1].attempts[k].outcome = "Timed out"

\* C4: no _send_event call ends by raising, whatever the registry read, the
\* per-token sends, the prune write and the topic send do.
C4_NotifyNeverRaises ==
    \A i \in NotifyRuns : ~last.pushes[i].raised

\* C5: a PATCH of a published event that changes datetime_start starts
\* exactly one delivery, of kind rescheduled, and none of kind updated.
C5_StartTimeChangeReschedules ==
    (last.op = "update_event" /\ last.pre_status = "published"
        /\ "datetime_start" \in last.changed)
      => KindsOf(last) = <<"rescheduled">>

\* C6: a PATCH of a published event that changes title or location and
\* leaves datetime_start as it was starts exactly one delivery, of kind
\* updated, and none of kind rescheduled.
C6_OtherChangeUpdates ==
    (last.op = "update_event" /\ last.pre_status = "published"
        /\ last.changed # {} /\ "datetime_start" \notin last.changed)
      => KindsOf(last) = <<"updated">>

\* C7: a PATCH of a draft event starts no delivery, whichever columns it
\* changes.
C7_DraftEditNeverNotifies ==
    (last.op = "update_event" /\ last.pre_status = "draft") => last.pushes = <<>>

\* C7 witness: a PATCH of a draft that changed title, start time and location
C7_Witness ==
    /\ last.op = "update_event"
    /\ last.pre_status = "draft"
    /\ last.status = 200
    /\ last.changed = EditableFields

\* C8: deleting a published event replies 200, removes the row and starts
\* exactly one delivery, of kind canceled, for that event; deleting a draft
\* replies 200, removes the row and starts none.
C8_DeleteNotifiesCanceled ==
    (last.op = "delete_event" /\ last.pre_status \in {"draft", "published"})
      => /\ last.status = 200
         /\ ~Exists(last.event)
         /\ last.pre_status = "published"
              => (KindsOf(last) = <<"canceled">> /\ last.pushes[1].event = last.event)
         /\ last.pre_status = "draft" => last.pushes = <<>>

\* C9: a publish replies 200 only if title, start time, location and banner
\* are all present; if one is absent it replies 400 with exactly the absent
\* fields, leaves the status as it was and starts no delivery.
C9_PublishRequiresFields ==
    (last.op = "publish_event" /\ last.pre_status \in {"draft", "published"})
      => LET event == events[last.event]
             absent == {f \in RequiredFields : ~Present(event[f])}
         IN  /\ last.status = 200 => absent = {}
             /\ absent = {} => last.missing = <<>>
             /\ absent # {} =>
                  /\ last.status = 400
                  /\ SeqToSet(last.missing) = absent
                  /\ Len(last.missing) = Cardinality(absent)
                  /\ event.status = last.pre_status
                  /\ last.pushes = <<>>

\* C9 witness: a publish refused for an empty title and a missing banner
C9_Witness ==
    /\ last.op = "publish_event"
    /\ last.status = 400
    /\ events[last.event].title = ""
    /\ last.missing = <<"title", "banner_image_url">>

\* C10: the registry never holds two rows with one token; a register call
\* for a token that is present changes that row's platform in place and adds
\* no row, one for an absent token adds exactly one row; the reply is ok.
C10_RegisterIsUpsert ==
    /\ \A i, j \in 1..Len(devices) :
           devices[i].fcm_token = devices[j].fcm_token => i = j
    /\ last.op = "register_device" =>
         LET before == last.devices_before
             token == last.payload.fcm_token
         IN  /\ last.status = 200 /\ last.result = [ok |-> TRUE]
             /\ token \in RegisteredTokens(before) =>
                  /\ Len(devices) = Len(before)
                  /\ \A i \in 1..Len(before) :
                         devices[i] = IF before[i].fcm_token = token
                                      THEN last.payload
                                      ELSE before[i]
             /\ token \notin RegisteredTokens(before) =>
                  devices = Append(before, last.payload)

\* C10 witness: a token registered as android registers again as ios, with
\* another token in the registry
C10_Witness ==
    /\ last.op = "register_device"
    /\ Len(last.devices_before) = 2
    /\ \E i \in 1..2 :
           /\ last.devices_before[i].fcm_token = last.payload.fcm_token
           /\ last.devices_before[i].platform = "android"
    /\ last.payload.platform = "ios"

\* the result dict a push_test request got back, if the call returned one
TestReturned == last.op = "push_test" /\ last.status = 200

\* C11: the result of send_test_notification has ok = TRUE exactly if some
\* per-token send succeeded or the topic send succeeded; it is FALSE when the
\* provider is disabled and when every send of the call failed.
C11_OkIffDelivered ==
    TestReturned =>
        LET run == last.pushes[1]
        IN  /\ last.result.ok <=> (Succeeded(run) # {} \/ run.topic_delivered)
            /\ ~enabled => ~last.result.ok
            /\ (Succeeded(run) = {} /\ ~run.topic_delivered) => ~last.result.ok

\* C11 witness: no token delivered, the topic send went through, ok is TRUE
C11_Witness ==
    /\ TestReturned
    /\ Len(last.pushes[1].attempts) > 0
    /\ Succeeded(last.pushes[1]) = {}
    /\ last.pushes[1].topic_delivered
    /\ last.result.ok

\* the send of one token in a run: its outcome, or "none" if it was not sent to
OutcomeOf(run, token) ==
    IF \E j \in 1..Len(run.attempts) : run.attempts[j].token = token
    THEN (CHOOSE a \in SeqToSet(run.attempts) : a.token = token).outcome
    ELSE "none"

\* C12: the counts of a returned send_test_notification result are those of
\* the call: tokens_total the distinct registered tokens it read,
\* tokens_delivered its successful per-token sends, tokens_pruned the devices
\* rows it removed, topic_sent only with no delivery; with registry [t1, t2],
\* t1 delivered and t2 failing as "registration-token-not-registered" the
\* result is delivered 1, pruned 1 with t2 removed, topic_sent FALSE.
C12_CountsMatchCall ==
    (TestReturned /\ enabled) =>
        LET run == last.pushes[1]
            result == last.result
            t1 == TokenTable[1]
            t2 == TokenTable[2]
        IN  /\ result.tokens_total = Cardinality(RegisteredTokens(last.devices_before))
            /\ result.tokens_delivered = Cardinality(Succeeded(run))
            /\ result.tokens_pruned = Len(last.devices_before) - Len(devices)
            /\ RegisteredTokens(devices) \subseteq RegisteredTokens(last.devices_before)
            /\ result.topic_sent => result.tokens_delivered = 0
            /\ (/\ RegisteredTokens(last.devices_before) = {t1, t2}
                /\ OutcomeOf(run, t1) = SEND_OK
                /\ OutcomeOf(run, t2) = "registration-token-not-registered")
                 => /\ result.tokens_delivered = 1
                    /\ result.tokens_pruned = 1
                    /\ RegisteredTokens(devices) = {t1}
                    /\ ~result.topic_sent

\* C12 witness: the call over registry [t1, t2] where t1 is delivered and t2
\* fails as not registered
C12_Witness ==
    /\ TestReturned
    /\ enabled
    /\ RegisteredTokens(last.devices_before) = {TokenTable[1], TokenTable[2]}
    /\ OutcomeOf(last.pushes[1], TokenTable[1]) = SEND_OK
    /\ OutcomeOf(last.pushes[1], TokenTable[2]) = "registration-token-not-registered"
    /\ last.result.tokens_pruned = 1

FailedAttempts(run) == SelectSeq(run.attempts, LAMBDA a : a.outcome # SEND_OK)

\* the failures of a diagnostic run: its failed token sends and, if the topic
\* send was attempted and failed, that one
FailureCount(run) ==
    Len(FailedAttempts(run)) + (IF run.topic_attempts = 1 /\ ~run.topic_delivered THEN 1 ELSE 0)

\* C14: the errors of a returned send_test_notification result are never more
\* than 5; they are the first 5 failures of the call in order of occurrence,
\* the failed token sends in token order and then the failed topic send.
C14_ErrorsCappedInOrder ==
    (TestReturned /\ enabled) =>
        LET run == last.pushes[1]
            errors == last.result.errors
            failed == FailedAttempts(run)
        IN  /\ Len(errors) <= 5
            /\ Len(errors) = IF FailureCount(run) <= 5 THEN FailureCount(run) ELSE 5
            /\ \A k \in 1..Len(errors) :
                   IF k <= Len(failed)
                   THEN /\ SubSeq(errors[k], 1, 6) = "token:"
                        /\ SubSeq(errors[k], 7, 18) = SubSeq(failed[k].token, 1, 12)
                   ELSE SubSeq(errors[k], 1, 6) = "topic:"

\* C14 witness: a call with more than 5 failures whose result lists 5
C14_Witness ==
    /\ TestReturned
    /\ enabled
    /\ FailureCount(last.pushes[1]) > 5
    /\ Len(last.result.errors) = 5

\* C15: no entry of the errors of a send_test_notification result contains
\* the whole of a registered token whose send failed: an entry carries a
\* proper fragment of the token only.
C15_ErrorsHoldNoFullToken ==
    (TestReturned /\ enabled) =>
        \A k \in 1..Len(last.result.errors) :
            \A j \in 1..Len(last.pushes[1].attempts) :
                LET a == last.pushes[1].attempts[j]
                IN  a.outcome # SEND_OK => ~Contains(last.result.errors[k], a.token)

\* C16: with the provider disabled a _send_event call makes no per-token
\* send and no topic send, reads and changes no devices row (a failing
\* registry read does not reach it) and returns; send_test_notification
\* makes no send either and returns ok FALSE, enabled FALSE, counts 0,
\* topic_sent FALSE and the one entry that says the service is disabled.
C16_DisabledIsNoOp ==
    (~enabled /\ last.op \in {"publish_event", "push_test"} /\ last.status \notin {400, 404}) =>
        /\ Len(last.pushes) = 1
        /\ last.pushes[1].attempts = <<>>
        /\ last.pushes[1].topic_attempts = 0
        /\ ~last.pushes[1].raised
        /\ last.pushes[1].removed = <<>>
        /\ devices = last.devices_before
        /\ last.status = 200
        /\ last.op = "push_test" =>
              last.result = [ok |-> FALSE, enabled |-> FALSE, topic |-> "school_all",
                             tokens_total |-> 0, tokens_delivered |-> 0, tokens_pruned |-> 0,
                             topic_sent |-> FALSE,
                             errors |-> <<"push_service_disabled_or_missing_credentials">>]

\* C16 witness: an event is published with the provider disabled and two
\* devices registered
C16_Witness ==
    /\ ~enabled
    /\ last.op = "publish_event"
    /\ last.status = 200
    /\ Len(last.pushes) = 1
    /\ last.pushes[1].notification_type = "new"
    /\ Len(devices) = 2

\* C17: a push_recon_event request of type k for an event that exists, in
\* any status, with the provider enabled calls _send_event exactly once, with
\* type k and that event; with the provider disabled it replies 400 and calls
\* nothing; for an event that does not exist it replies 404 and calls
\* nothing; no request of this kind changes a row of events.
C17_ReconFiresOnceAndKeepsEvent ==
    [][(last.op = "none" /\ last'.op = "push_recon_event") =>
          LET req == last'
          IN  /\ events' = events
              /\ (Exists(req.event) /\ enabled) =>
                    /\ Len(req.pushes) = 1
                    /\ req.pushes[1].notification_type = req.payload.notification_type
                    /\ req.pushes[1].event = req.event
                    /\ ~req.pushes[1].skipped
              /\ (Exists(req.event) /\ ~enabled) =>
                    (req.status = 400 /\ req.pushes = <<>> /\ devices' = devices)
              /\ ~Exists(req.event) =>
                    (req.status = 404 /\ req.pushes = <<>> /\ devices' = devices)]_vars

\* C17 witness: a canceled notification re-fired for a published event, which
\* is still published
C17_Witness ==
    /\ last.op = "push_recon_event"
    /\ last.pre_status = "published"
    /\ events[last.event].status = "published"
    /\ last.status = 200
    /\ KindsOf(last) = <<"canceled">>

\* C18: a publish of an event that has its four required fields leaves the
\* row stored as published and replies 200, whatever the push call that
\* follows the commit does.
C18_PublishSurvivesPush ==
    (last.op = "publish_event" /\ last.pre_status \in {"draft", "published"}
        /\ last.missing = <<>>)
      => /\ events[last.event].status = "published"
         /\ last.status = 200

\* a _build_message call just made
MessageBuilt == last.op = "_build_message"

\* the title each notification type is announced with
TitleOfKind ==
    [k \in NotificationType |->
        CASE k = "new" -> "Novoe meropriyatie!"
          [] k = "rescheduled" -> "Meropriyatie pereneseno"
          [] k = "updated" -> "Meropriyatie izmeneno"
          [] k = "canceled" -> "Meropriyatie otmeneno"]

\* C19: the title of a notification is the fixed text of its type, for each
\* of the four types and whatever the event row holds, and the four texts
\* are pairwise distinct.
C19_TitleByKindOnly ==
    /\ MessageBuilt =>
          last.result.push_title = TitleOfKind[last.payload.notification_type]
    /\ \A k1, k2 \in NotificationType :
          k1 # k2 => _notification_title(k1) # _notification_title(k2)

\* C19 witness: an update of an event without a title is announced
C19_Witness ==
    /\ MessageBuilt
    /\ last.payload.notification_type = "updated"
    /\ events[last.event].title = None
    /\ last.result.push_title = "Meropriyatie izmeneno"

\* the lines of a text: its parts between line breaks
RECURSIVE SplitLines(_)
SplitLines(text) ==
    IF ~Contains(text, "\n") THEN <<text>>
    ELSE LET i == CHOOSE j \in 1..Len(text) :
                      /\ SubSeq(text, j, j) = "\n"
                      /\ \A k \in 1..(j - 1) : SubSeq(text, k, k) # "\n"
         IN  <<SubSeq(text, 1, i - 1)>> \o SplitLines(SubSeq(text, i + 1, Len(text)))

\* the date-time line of each start time
DateLineOf ==
    [d \in MessageDateTimes |->
        CASE d = None -> "Data ne ukazana"
          [] d = "2026-02-11T13:30:00+00:00" -> "11 fevr, 13:30"
          [] d = "2026-02-13T09:00:00+00:00" -> "13 fevr, 09:00"
          [] d = "2026-11-05T09:07:00+00:00" -> "05 noyab, 09:07"]

\* C20: the body of a notification is three lines joined by line breaks:
\* the title, the start time, the location, in this order; each line is its
\* placeholder if its field is absent or empty and the field's value (the
\* start time in its short form) otherwise, independently of the other two.
C20_BodyThreeLines ==
    MessageBuilt =>
        LET event == events[last.event]
            lines == SplitLines(last.result.push_body)
        IN  /\ Len(lines) = 3
            /\ lines[1] = IF Present(event.title) THEN event.title ELSE "Bez nazvaniya"
            /\ lines[2] = DateLineOf[event.datetime_start]
            /\ lines[3] = IF Present(event.location) THEN event.location
                          ELSE "Lokatsiya ne ukazana"

\* C20 witness: an empty title, a start time and no location
C20_Witness ==
    /\ MessageBuilt
    /\ events[last.event].title = ""
    /\ events[last.event].location = None
    /\ last.result.push_body = "Bez nazvaniya\n05 noyab, 09:07\nLokatsiya ne ukazana"

\* C21: in the data of a message built for an event and a type, the title,
\* start-time and location entries are strings and never null: the empty
\* string when the column is absent or empty, the column's text (the start
\* time as ISO-8601) otherwise; deep_link is school-events://event/<id> for
\* the id in event_id, which is the event's; notification_type is the type
\* asked for.
C21_PayloadEntries ==
    MessageBuilt =>
        LET event == events[last.event]
            data == last.result
        IN  /\ data.event_title # None
            /\ data.event_datetime_start # None
            /\ data.event_location # None
            /\ data.event_title = IF Present(event.title) THEN event.title ELSE ""
            /\ data.event_datetime_start =
                  IF Present(event.datetime_start) THEN event.datetime_start ELSE ""
            /\ data.event_location = IF Present(event.location) THEN event.location ELSE ""
            /\ data.event_id = last.event
            /\ data.deep_link = "school-events://event/" \o ToString(data.event_id)
            /\ data.notification_type = last.payload.notification_type

\* C21 witness: a message for an event with no title, no start time and no
\* location
C21_Witness ==
    /\ MessageBuilt
    /\ events[last.event].title = None
    /\ events[last.event].datetime_start = None
    /\ events[last.event].location = None
    /\ last.result.event_title = ""
    /\ last.result.event_datetime_start = ""

\* the sum of the delta_points of the transactions recorded for a class
RECURSIVE SumOfDeltas(_, _)
SumOfDeltas(rows, class_id) ==
    IF Len(rows) = 0 THEN 0
    ELSE (IF Head(rows).class_id = class_id THEN Head(rows).delta_points ELSE 0)
         + SumOfDeltas(Tail(rows), class_id)

\* C22: after any sequence of add_points requests the total_points of a
\* class is the sum of the delta_points of its recorded transactions; a
\* request that succeeds appends exactly one transaction, with its delta and
\* category, and returns the total before it plus the delta.
C22_TotalIsSumOfHistory ==
    /\ [](\A c \in ClassIds :
            ClassExists(c) =>
                classes[c].total_points = SumOfDeltas(point_transactions, c))
    /\ [][(last.op = "none" /\ last'.op = "add_points" /\ last'.status = 200) =>
            /\ point_transactions' =
                 Append(point_transactions,
                        PointTransaction(last'.event, last'.payload.delta_points,
                                         last'.payload.category))
            /\ last'.result.ok
            /\ last'.result.total_points =
                 classes[last'.event].total_points + last'.payload.delta_points]_vars

\* C22 witness: three operations, on two classes, one of them negative
C22_Witness ==
    /\ last.op = "add_points"
    /\ last.status = 200
    /\ Len(point_transactions) = 3
    /\ \E i, j \in 1..3 : point_transactions[i].class_id # point_transactions[j].class_id
    /\ \E i \in 1..3 : point_transactions[i].delta_points < 0
    /\ last.result.total_points = 15


\* C23: a delete request on an existing event replies 200 with ok = true and
\* removes the row, and a details request replies 404 exactly for an id that
\* has no row: so every details request after the delete replies 404.
C23_DeletedIsNotRetrievable ==
    /\ (last.op = "delete_event" /\ last.pre_status \in {"draft", "published"})
         => /\ last.status = 200
            /\ "ok" \in DOMAIN last.result
            /\ last.result.ok
            /\ ~Exists(last.event)
    /\ last.op = "event_details" => (last.status = 404 <=> ~Exists(last.event))

\* the start-time ranks of the listed rows, in the order of the list
ListedRanks(items) == [i \in 1..Len(items) |-> TimeRank(events[items[i]].datetime_start)]

\* C24: the public list holds published rows only, each at most once, in
\* ascending order of start time wherever the ids (the creation order) fall;
\* asked without a start bound and with room for all, it holds every
\* published row.
C24_ListPublishedAscending ==
    (last.op = "list_events" /\ last.status = 200)
      => LET items == last.result.items
         IN  /\ \A i \in 1..Len(items) : events[items[i]].status = "published"
             /\ \A i, j \in 1..Len(items) : i < j => items[i] # items[j]
             /\ \A i, j \in 1..Len(items) : i < j => ListedRanks(items)[i] <= ListedRanks(items)[j]
             /\ (~Truthy(last.payload.from) /\ last.payload.limit >= MaxCatalogEvents)
                  => SeqToSet(items) = {e \in CatalogIds : events[e].status = "published"}

\* a list of two rows in which the row created later starts earlier and comes
\* first, while a draft of the table is left out
C24_Witness ==
    /\ last.op = "list_events"
    /\ last.status = 200
    /\ Len(last.result.items) = 2
    /\ last.result.items[1] > last.result.items[2]
    /\ ListedRanks(last.result.items)[1] < ListedRanks(last.result.items)[2]
    /\ \E e \in CatalogIds : events[e].status = "draft"


\* the bearer token of an admin: signed with the secret, not expired, its
\* subject a row of the admins table
ValidAdminToken(credentials) ==
    /\ credentials # NoCredentials
    /\ credentials.signature_ok
    /\ ~credentials.expired
    /\ credentials.sub \in Admins

\* C25: POST /push/test without the token of an admin replies 401, starts no
\* delivery and leaves the registry alone; with one, it runs the diagnostic
\* delivery once and, unless that raised, replies 200 with its dict as it is.
C25_PushTestRequiresAdmin ==
    last.op = "post_push_test" =>
        LET request == last.payload
        IN  /\ ~ValidAdminToken(request.credentials)
                 => /\ last.status = 401
                    /\ last.pushes = <<>>
                    /\ devices = last.devices_before
            /\ ValidAdminToken(request.credentials)
                 => /\ Len(last.pushes) = 1
                    /\ last.pushes[1].notification_type = "test"
                    /\ ~last.pushes[1].raised
                         => /\ last.status = 200
                            /\ last.result = send_test_notification(request.title, request.body,
                                                 request.db, request.fcm).result

\* a signed, unexpired token of an unknown admin is turned away although a
\* device is registered and the provider would have delivered
C25_Witness ==
    /\ last.op = "post_push_test"
    /\ last.payload.credentials = Credentials(TRUE, FALSE, "admin-9")
    /\ last.status = 401
    /\ enabled
    /\ Len(devices) > 0
    /\ last.payload.db = HealthySession(devices)
    /\ last.payload.fcm = HealthyFcm(devices)


\* the tokens a call has classified as invalid
ClassifiedInvalid(c) == SeqToSet(InvalidTokens(calls[c].attempts))

\* the call is past its prune
Pruned(c) == calls[c].pc \in {"topic", "done"}

\* C26: two calls that run at the same time and prune the same invalid token:
\* neither raises; once a call is past its prune the tokens it classified as
\* invalid are not in the registry; a token a call collected is gone from the
\* registry only if some call classified it as invalid; a row is removed by
\* one call only, and the call that finds it gone removes nothing.
C26_ConcurrentPruneIsSafe ==
    /\ \A c \in CallIds : calls[c].pc # "raised"
    /\ \A c \in CallIds : Pruned(c) => ClassifiedInvalid(c) \cap RegisteredTokens(devices) = {}
    /\ \A c \in CallIds : \A t \in SeqToSet(calls[c].tokens) :
           t \notin RegisteredTokens(devices) => \E d \in CallIds : t \in ClassifiedInvalid(d)
    /\ \A c, d \in CallIds :
           c # d => SeqToSet(calls[c].removed) \cap SeqToSet(calls[d].removed) = {}
    /\ \A c \in CallIds : SeqToSet(calls[c].removed) \subseteq SeqToSet(calls[c].selected)

\* both calls selected the same row for deletion; one commit removed it, the
\* other found it gone and removed nothing; both calls returned and another
\* token is still registered
C26_Witness ==
    \E c, d \in CallIds :
        /\ c # d
        /\ calls[c].pc = "done"
        /\ calls[d].pc = "done"
        /\ calls[c].selected # <<>>
        /\ calls[c].selected = calls[d].selected
        /\ calls[c].removed = calls[c].selected
        /\ calls[d].removed = <<>>
        /\ ClassifiedInvalid(d) \cap RegisteredTokens(devices) = {}
        /\ RegisteredTokens(devices) # {}

\* C27: within a call, the prune (its SELECT, its DELETE/commit) and the topic
\* send come only when every token of the call has had its send settled.
C27_AggregateAfterAllSettled ==
    \A c \in CallIds :
        (\/ calls[c].pc \in {"prune", "commit", "topic"}
         \/ calls[c].selected # <<>>
         \/ calls[c].removed # <<>>
         \/ calls[c].topic_attempts > 0)
          => Len(calls[c].attempts) = Len(calls[c].tokens)

\* one call is committing its prune after both of its sends, while the other
\* call still has a send pending
C27_Witness ==
    \E c, d \in CallIds :
        /\ calls[c].pc = "commit"
        /\ Len(calls[c].tokens) = 2
        /\ calls[d].pc = "send"
        /\ Len(calls[d].attempts) < Len(calls[d].tokens)

\* C29: within a call the sends go through the collected list token by token,
\* one send per token whatever the outcomes, and the topic gets at most one
\* send; a call that has returned has sent to every token it collected.
C29_OneAttemptPerToken ==
    \A c \in CallIds :
        /\ Len(calls[c].attempts) <= Len(calls[c].tokens)
        /\ \A i \in 1..Len(calls[c].attempts) : calls[c].attempts[i].token = calls[c].tokens[i]
        /\ \A i, j \in 1..Len(calls[c].attempts) :
               i # j => calls[c].attempts[i].token # calls[c].attempts[j].token
        /\ calls[c].pc = "done" => Len(calls[c].attempts) = Len(calls[c].tokens)
        /\ calls[c].topic_attempts <= 1

\* a diagnostic call that returned after one send that timed out and one to
\* an unregistered token, and one failed send to the topic
C29_Witness ==
    \E c \in CallIds :
        /\ calls[c].pc = "done"
        /\ calls[c].notification_type = "test"
        /\ Len(calls[c].attempts) = 2
        /\ calls[c].attempts[1].outcome = "Timed out"
        /\ calls[c].attempts[2].outcome = "Requested entity was not found."
        /\ calls[c].topic_attempts = 1
        /\ ~calls[c].topic_delivered


\* what a notify call shows of itself: whether it raised, the delivered count,
\* the tokens it pruned, the topic send, the tokens left in the registry
Outcome(run) ==
    [raised |-> run.raised, delivered |-> run.delivered,
     pruned |-> {run.removed[i].fcm_token : i \in 1..Len(run.removed)},
     topic_attempts |-> run.topic_attempts, topic_delivered |-> run.topic_delivered,
     registered |-> RegisteredTokens(run.rows)]

\* C28: a notify call over the same tokens with the same outcome per token
\* has the same delivered count, pruned tokens and topic fallback whatever the
\* order of the token list.
C28_OrderDoesNotMatter ==
    last.op = "_send_event" => Outcome(last.pushes[1]) = Outcome(last.pushes[2])

\* two orders of a list in which one token is delivered to and the other is
\* unregistered: one delivery, one prune, no topic send
C28_Witness ==
    /\ last.op = "_send_event"
    /\ last.payload.order # last.devices_before
    /\ last.pushes[1].delivered = 1
    /\ Len(last.pushes[1].removed) = 1
    /\ last.pushes[2].topic_attempts = 0
    /\ last.pushes[1].attempts # last.pushes[2].attempts

\* the tokens of the registry in the order the devices were first registered
InRegistrationOrder == [i \in 1..Len(devices) |-> devices[i].fcm_token]

\* C30: the list a notify call works on holds every registered token once, in
\* the order of first registration.
C30_CollectedInRegistrationOrder ==
    last.op = "_collect_device_tokens"
      => /\ SeqToSet(last.result.tokens) = RegisteredTokens(devices)
         /\ Len(last.result.tokens) = Len(devices)
         /\ last.result.tokens = InRegistrationOrder


\* the tokens a request's delivery runs sent to and got an invalid-token
\* error for
FailedAsInvalid(req) ==
    UNION {{req.pushes[i].attempts[j].token : j \in {k \in 1..Len(req.pushes[i].attempts) : req.pushes[i].attempts[k].outcome \in MarkedInvalid}} : i \in 1..Len(req.pushes)}

\* C31: a register request removes no row; a request that runs notify or
\* sendTest removes only rows of tokens whose send failed with an
\* invalid-token marker, and leaves the registry exactly as it was when no
\* send failed so; the rows that stay are not changed by it.
C31_RemovedOnlyByPrune ==
    /\ last.op = "register_device"
         => /\ RegisteredTokens(last.devices_before) \subseteq RegisteredTokens(devices)
            /\ Len(devices) >= Len(last.devices_before)
    /\ last.op \in {"push_test", "push_recon_event", "publish_event"}
         => /\ (RegisteredTokens(last.devices_before) \ RegisteredTokens(devices))
                  \subseteq FailedAsInvalid(last)
            /\ FailedAsInvalid(last) = {} => devices = last.devices_before
            /\ devices = SelectSeq(last.devices_before,
                                   LAMBDA row : row.fcm_token \in RegisteredTokens(devices))

\* C31 witness: a delivery run in which one send timed out and one was
\* delivered, and the registry of two devices is as it was
C31_Witness ==
    /\ last.op \in {"push_test", "push_recon_event"}
    /\ Len(last.pushes) = 1
    /\ Len(last.pushes[1].attempts) = 2
    /\ \E j \in 1..2 : last.pushes[1].attempts[j].outcome = "Timed out"
    /\ FailedAsInvalid(last) = {}
    /\ devices = last.devices_before


\* the month name in a text "DD name, HH:MM"
MonthNameIn(text) == SubSeq(text, 4, Len(text) - 7)

\* C32: the formatter never raises and renders the month name at index
\* clamp(month - 1, 0, 11) of the twelve-entry table: the entry of the month
\* for 1..12, the first entry below 1, the last entry above 12.
C32_MonthIndexClamped ==
    last.op = "_format_ru_short_datetime"
      => /\ ~last.result.raised
         /\ Len(_RU_MONTHS_SHORT) = 12
         /\ MonthNameIn(last.result.text) =
              (IF last.payload.month < 1 THEN _RU_MONTHS_SHORT[1]
               ELSE IF last.payload.month > 12 THEN _RU_MONTHS_SHORT[12]
               ELSE _RU_MONTHS_SHORT[last.payload.month])
         /\ last.result.text =
              TwoDigits(last.payload.day) \o " " \o MonthNameIn(last.result.text) \o ", "
                \o TwoDigits(last.payload.hour) \o ":" \o TwoDigits(last.payload.minute)

\* C32 witness: month 0 rendered with the first entry of the table
C32_Witness ==
    /\ last.op = "_format_ru_short_datetime"
    /\ last.payload.month = 0
    /\ last.result.text = "05 yanv, 09:07"


\* C33: every event whose status is published has a non-empty title, a start
\* time, a non-empty location and a banner, after any sequence of create,
\* edit, banner-upload and publish requests.
C33_PublishedHasRequiredFields ==
    \A e \in DOMAIN events :
        events[e].status = "published"
          => /\ Truthy(events[e].title)
             /\ Truthy(events[e].datetime_start)
             /\ Truthy(events[e].location)
             /\ Truthy(events[e].banner_image_url)

\* C34: the status of an event is monotonic: a create, edit, banner upload,
\* block request or publish never takes a published event back to draft, and
\* the status of a stored event changes only in a publish_event of that event
C34_StatusMonotonic ==
    [][\A e \in DOMAIN events :
        /\ events[e].status = "published" => events'[e].status = "published"
        /\ (Exists(e) /\ events'[e].status # events[e].status)
              => (last'.op = "publish_event" /\ last'.event = e /\ last'.pre_status = "draft")]_vars

C34_Witness ==
    /\ last.op = "update_event"
    /\ last.status = 200
    /\ last.pre_status = "published"
    /\ "title" \in last.changed
    /\ events[last.event].status = "published"
    /\ \E b \in BlockIds : blocks[b] # NoBlock /\ blocks[b].sort_order = 1

\* the block belongs to the event
BelongsTo(rows, block_id, event_id) == rows[block_id] # NoBlock /\ rows[block_id].event_id = event_id

\* the blocks the items of a reorder request name
NamedBlocks(payload) == {payload[i].block_id : i \in 1..Len(payload)}

\* the sort_order the request asks for a block: that of the last item naming it
RequestedOrder(payload, block_id) ==
    LET i == CHOOSE k \in 1..Len(payload) :
                 /\ payload[k].block_id = block_id
                 /\ \A j \in (k + 1)..Len(payload) : payload[j].block_id # block_id
    IN  payload[i].sort_order

\* C35: reorder_blocks on a stored event is all-or-nothing: an item naming a
\* block that does not belong to the event makes the call fail with 400 and
\* leaves every stored block as it was, the blocks earlier items named
\* included; if every item names a block of the event the call returns 200,
\* every named block has its requested sort_order and nothing else changes
C35_ReorderAllOrNothing ==
    [][(last'.op = "reorder_blocks" /\ Exists(last'.event)) =>
        LET payload == last'.payload
            event_id == last'.event
        IN  IF \E b \in NamedBlocks(payload) : ~BelongsTo(blocks, b, event_id)
            THEN last'.status = 400 /\ blocks' = blocks
            ELSE /\ last'.status = 200
                 /\ \A b \in BlockIds :
                      IF b \in NamedBlocks(payload)
                      THEN blocks'[b] = [blocks[b] EXCEPT !.sort_order = RequestedOrder(payload, b)]
                      ELSE blocks'[b] = blocks[b]]_vars

\* a rejected reorder whose first item named a block of the event and asked
\* it another sort_order than the stored one, which is still stored
C35_Witness ==
    /\ last.op = "reorder_blocks"
    /\ last.status = 400
    /\ Len(last.payload) = 2
    /\ BelongsTo(blocks, last.payload[1].block_id, last.event)
    /\ blocks[last.payload[1].block_id].sort_order # last.payload[1].sort_order
    /\ ~BelongsTo(blocks, last.payload[2].block_id, last.event)

\* C36: under any interleaving of concurrent add_points requests on a class
\* no update is lost: once every request has completed, total_points is the
\* sum of the deltas of the recorded transactions of the class
C36_NoLostUpdate ==
    PointsSettled =>
        \A class_id \in ClassIds :
            ClassExists(class_id) =>
                classes[class_id].total_points = SumOfDeltas(point_transactions, class_id)

\* C37: two concurrent register requests for the same token, which no row
\* held when either looked for it, both complete with ok=true, and the
\* registry ends with exactly one row for the token
C37_ConcurrentRegisterBothOk ==
    \A c \in CallIds, d \in CallIds :
        (/\ c # d
         /\ calls[c].pc = "done" /\ calls[d].pc = "done"
         /\ calls[c].fcm_token = calls[d].fcm_token
         /\ ~calls[c].existing /\ ~calls[d].existing)
        => /\ calls[c].status = 200 /\ calls[d].status = 200
           /\ Cardinality({i \in 1..Len(devices) : devices[i].fcm_token = calls[c].fcm_token}) = 1

\* the drafts the backend created for a flow
DraftsOf(b, flow) == {i \in 1..Len(b.drafts) : b.drafts[i].flow = flow}

\* the wizard of a chat goes from one state to the next in the order of the
\* flow, keeping what it has collected
WizardAdvance(from, to) ==
    \/ from.step = "title" /\ to = [from EXCEPT !.title = to.title, !.step = "date"]
    \/ from.step = "date" /\ to = [from EXCEPT !.event_date = to.event_date, !.step = "time"]
    \/ from.step = "time" /\ to = [from EXCEPT !.event_time = to.event_time,
                                               !.event_id = to.event_id, !.step = "banner"]

\* C38: the wizard of a chat advances only in the order title, date, time,
\* banner: a state changes only by a /create_event that starts a flow, by
\* the next step of the flow, or by its removal after a successful banner
\* upload or a /cancel, after which the chat has no state; an input that is
\* refused changes nothing; a draft is created only on the time step of the
\* flow the chat is in, and at most once per flow
C38_WizardInOrder ==
    [][/\ \A chat \in ChatIds :
            LET from == bot.states[chat]
                to == bot'.states[chat]
            IN  to # from =>
                  \/ /\ to = EventCreateWizardState("title", None, None, None, None, bot'.flows)
                     /\ bot'.answer = Answer(chat, "Create event flow started.")
                  \/ from # NoWizard /\ to # NoWizard /\ WizardAdvance(from, to)
                  \/ /\ to = NoWizard
                     /\ bot'.answer \in {Answer(chat, "Event creation flow canceled."),
                                         Answer(chat, "Event draft created successfully.")}
       /\ bot'.answer.text \in {"Event creation flow canceled.", "Event draft created successfully."}
            => bot'.states[bot'.answer.chat] = NoWizard
       /\ Len(bot'.drafts) > Len(bot.drafts) =>
            LET draft == bot'.drafts[Len(bot'.drafts)]
            IN  /\ bot.states[draft.chat] # NoWizard
                /\ bot.states[draft.chat].step = "time"
                /\ bot.states[draft.chat].flow = draft.flow
                /\ bot'.states[draft.chat].step = "banner"
       /\ \A flow \in 1..MaxFlows : Cardinality(DraftsOf(bot', flow)) <= 1]_vars

\* C39: the bot holds wizard state only for allowed chats, and only
\* messages of allowed chats have created a draft, uploaded a banner or sent
\* a push through the backend
C39_StateOnlyForAllowedChats ==
    /\ \A chat \in ChatIds : bot.states[chat] # NoWizard => chat \in ALLOWED_CHAT_IDS
    /\ \A t \in TaskIds : bot.tasks[t] # NoTask => bot.tasks[t].chat \in ALLOWED_CHAT_IDS
    /\ \A call \in bot.backend : call[1] \in ALLOWED_CHAT_IDS

\* a chat that is not allowed has just been refused, after an allowed chat
\* has created a draft and sent a push and while it is at the banner step
C39_Witness ==
    /\ bot.answer.chat \notin ALLOWED_CHAT_IDS
    /\ bot.answer.chat \in ChatIds
    /\ bot.answer.text = "Access denied."
    /\ \E chat \in ALLOWED_CHAT_IDS :
        /\ bot.states[chat].step = "banner"
        /\ {<<chat, "draft">>, <<chat, "push">>} \subseteq bot.backend

\* C40 as stated: a request issues at most two API calls and at most one login
C40_AtMostOneLogin ==
    /\ bot.request.api_calls <= 2
    /\ bot.request.logins <= 1

\* C40: a request logs in again at most once: it issues at most two API
\* calls, the second only after a 401 and a new login; it logs in at most
\* once to fill an empty cache and at most once after a 401; the answer of
\* the repeated request is returned only if its status is below 400,
\* otherwise raised; and every request that begins ends
C40_ReauthAtMostOnce ==
    /\ [](/\ bot.request.api_calls <= 2
          /\ bot.request.reauth <= 1
          /\ bot.request.logins <= 1 + bot.request.reauth
          /\ bot.request.api_calls = 2 => bot.request.reauth = 1
          /\ bot.request.pc = "returned" => bot.request.status < 400
          /\ bot.request.pc = "retry" => bot.token = IssuedToken(bot.issued))
    /\ (bot.request.pc # "idle") ~> (bot.request.pc = "idle")

\* the cache was empty, the first request was answered 401, the bot logged
\* in again and the repeated request was answered 401 too: it is raised
C40_Witness ==
    /\ bot.request.pc = "raised"
    /\ bot.request.api_calls = 2
    /\ bot.request.logins = 2
    /\ bot.request.reauth = 1
    /\ bot.request.status = 401

====
